---- MODULE Spec2Model ----
(***************************************************************************)
(* HTLC atomic-swap settlement core of contrib/dex: the LP watcher loop    *)
(* (lp_watcher.py), the taker registry of the swap watcher                 *)
(* (swap_watcher.py), the SDK server start-up and registration             *)
(* (sdk/server.py) and the taker script (retail_buy.py).                   *)
(*                                                                         *)
(* The specifications share the module's variables:                        *)
(*   Spec         LP watcher + EVM chain + native chain + taker registry   *)
(*   SpecFair     Spec under a fair loop and RPCs that eventually answer   *)
(*   SpecLossy    LP watcher whose RPC answers can be lost after the       *)
(*                daemon acted: several native HTLCs for one hashlock      *)
(*   SpecRetry    registry lookups of one swap, counted                    *)
(*   SpecDup      a hashlock locked again on the EVM chain                 *)
(*   SpecRestart  the LP watcher process restarted                         *)
(*   SpecServer   SDK server start-up (timelock assertion), /api/register  *)
(*   SpecHtlcApi  SDK server HTLC endpoints against the native chain       *)
(*   SpecTaker    retail_buy.py main flow against the native chain         *)
(*   SpecSave     saves of the persistent stores, with crashes             *)
(*   SpecDerive   swap_watcher.py compute_swap_state / derive_states       *)
(*   SpecCalls    library functions called with arguments of every kind    *)
(*   SpecRegistry pna-registry block scanner, chain growth and reorgs      *)
(*   SpecScanner  the block scanner with failing sender lookups            *)
(*   SpecHealth   pna-registry health checker beside the block scanner     *)
(*   SpecDex      dex-daemon.py polling loop over the pending takes        *)
(***************************************************************************)
EXTENDS Integers, Sequences, FiniteSets, TLC

(***************************************************************************)
(* Bounds of the model                                                     *)
(***************************************************************************)
MaxLocks == 1          \* log entries emitted by the EVM HTLC contract
MaxClock == 1          \* wall-clock steps of TimeStep seconds
MaxNativeHtlcs == 2    \* HTLCs LPs create for the taker's hashlock
TimeStep == 7200       \* seconds per wall-clock step
MaxTakes == 3          \* pending takes the DEX daemon is shown
MaxHeight == 3         \* blocks of the chain the registry service scans
RetryBound == 2        \* registry lookups counted per swap
MaxRelocks == 1        \* further Locked events carrying a hashlock already locked
MaxRestarts == 1       \* restarts of the LP watcher process
MaxSaves == 2          \* saves each persistent store starts
MaxFailCount == 4      \* failed health checks in a row counted per LPEntry
MaxAmount == 120       \* amounts 1..MaxAmount handed to split_amount, besides a few large ones

(***************************************************************************)
(* Program constants                                                       *)
(***************************************************************************)
DEFAULT_EXPIRY_BLOCKS == 120     \* create_kpiv_htlc(expiry_blocks=120)
SECONDS_PER_BLOCK == 60          \* "~1 block/min"
T_BUFFER_SECONDS == 1800         \* 30 min safety buffer
POLYGON_TIMELOCK_SECONDS == 21600 \* retail_buy.py: 6 hours
LP_PRICE_INV == 20               \* LP_PRICE = 0.05 USDC per KPIV
START_BLOCKS_BACK == 100         \* EVMMonitor starts 100 blocks back
N_REORG == 2                     \* confirmations of the native chain
LOCK_UNITS == 5000000            \* 5.00 USDC in 6-decimal units
T_KPIV_SECONDS_DEFAULT == 7200   \* sdk/server.py T_KPIV_SECONDS
T_USDC_SECONDS_DEFAULT == 14400  \* sdk/server.py T_USDC_SECONDS
T_KPIV_BLOCKS_LONG == 300        \* T_KPIV_BLOCKS edited to ~5 hours
T_KPIV_SECONDS_LONG == T_KPIV_BLOCKS_LONG * SECONDS_PER_BLOCK  \* T_KPIV_SECONDS edited to match
POLL_ATTEMPTS == 60              \* retail_buy.py: for i in range(60)
TakerSecret == 1                 \* the S generate_secret returned

HashIds == {1}
Preimages == {1, 2}
LP_ADDR == "lp"
USDC == "usdc"
TakerAddrs == {"yTaker", "yOther"}

\* SHA256 restricted to the preimages of the model: preimage 1 hashes to
\* hashlock 1; preimage 2 hashes to a digest that is nobody's hashlock.
SHA256(p) == IF p = 1 THEN 1 ELSE 0

(***************************************************************************)
(* Hashlock spellings: the 64 hex digits in lower or upper case, with or   *)
(* without the 0x prefix.                                                  *)
(***************************************************************************)
Spellings == [id : HashIds, pfx : BOOLEAN, up : BOOLEAN]
Lower(s) == [s EXCEPT !.up = FALSE]
Strip0x(s) == [s EXCEPT !.pfx = FALSE]
\* "0x" + data[128:192] of a log entry: lower-case hex with prefix
FromEvmData(id) == [id |-> id, pfx |-> TRUE, up |-> FALSE]

VARIABLES
  now,             \* wall clock, unix seconds
  evm_block,       \* w3.eth.block_number
  evm_logs,        \* log entries of the HTLC contract, in emission order
  withdrawn,       \* swap ids whose quote HTLC has been withdrawn on the EVM chain
  taker_registry,  \* swap_watcher.taker_registry: normalised hashlock -> address
  htlcs,           \* native chain HTLCs as htlc_list reports them; outpoint = index
  last_block,      \* EVMMonitor.last_block
  private_key,     \* EVMMonitor.private_key is configured
  pending_swaps,   \* LPWatcher.pending_swaps, in insertion order
  pc,              \* position of LPWatcher.run inside one loop iteration
  lock_queue,      \* locks returned by the last scan, still to be processed
  observed,        \* history: hashlocks of the locks returned by scans
  create_calls,    \* history: htlc_create_kpiv submissions
  quote_claims,    \* history: claim transactions broadcast to the EVM chain
  refund_hist,     \* history: htlc_refund_kpiv submissions per hashlock
  lookup_misses,   \* history, kept by SpecRetry: lookups the registry answered with no address
  before_restart,  \* history: restarts of the watcher so far, and pending_swaps as the last one found it
  srv_cfg,         \* sdk/server.py: the timelock constants of the module
  srv_phase,       \* sdk/server.py: "import", "serving" or "aborted"
  srv_pending,     \* sdk/server.py: pending_swaps, hashlock as given -> swap info
  http_status,     \* status code of the last registration request
  known_htlcs,     \* sdk/server.py: known_htlcs, normalised hashlock -> HTLC info
  tk_pc,           \* retail_buy.py: position in main
  tk_i,            \* retail_buy.py: the wait loop's counter
  tk_htlc,         \* retail_buy.py: the HTLC check_htlc_created returned, 0 for None
  tk_claims,       \* history: outpoints given to htlc_claim_kpiv
  tk_refunds,      \* history: EVM swap ids retail_buy.py submitted a refund for
  disk,            \* the persistence files of the registry service, the LP bot and the LOT manager
  swap_state,      \* swap_watcher.py: the SwapState compute_swap_state builds and returns
  lib_call,        \* the last call of a library function: its name, arguments and result
  chain,           \* native chain as the registry service's daemon reports it: block h = chain[h]
  registry,        \* registry_service.py: the global Registry
  dex,             \* dex-daemon.py: DexDaemon.processed_takes, and history of its RPCs per take
  health           \* registry_service.py: the LPEntry objects and the checks health_checker_loop awaits

vars == <<now, evm_block, evm_logs, withdrawn, taker_registry, htlcs, last_block,
          private_key, pending_swaps, pc, lock_queue, before_restart, observed, create_calls,
          quote_claims, refund_hist, lookup_misses, srv_cfg, srv_phase, srv_pending, http_status,
          known_htlcs, tk_pc, tk_i, tk_htlc, tk_claims, tk_refunds, disk,
          swap_state, lib_call, chain, registry, dex, health>>

envVars == <<now, evm_block, evm_logs, taker_registry>>
histVars == <<observed, create_calls, quote_claims, refund_hist, lookup_misses>>
watcherVars == <<last_block, private_key, pending_swaps, pc, lock_queue, before_restart>>
serverVars == <<srv_cfg, srv_phase, srv_pending, http_status, known_htlcs>>
takerVars == <<tk_pc, tk_i, tk_htlc, tk_claims, tk_refunds>>
otherVars == <<serverVars, takerVars>>

(***************************************************************************)
(* Taker registry of the swap watcher                                      *)
(***************************************************************************)
\* do_POST /api/register_taker: normalise, then taker_registry[hashlock] = kpiv_address
RegisterTakerStore(reg, s, a) == [reg EXCEPT ![Strip0x(Lower(s))] = a]

\* do_GET /api/taker_address: normalise, then taker_registry.get(hashlock)
TakerAddressLookup(reg, s) == reg[Strip0x(Lower(s))]

\* get_taker_kpiv_address: strip the 0x prefix, query the swap watcher
get_taker_kpiv_address(reg, s) == TakerAddressLookup(reg, Strip0x(s))

\* a taker registers with the swap watcher while the LP watcher runs
RegisterTaker(s, a) ==
  /\ taker_registry' = RegisterTakerStore(taker_registry, s, a)
  /\ UNCHANGED <<now, evm_block, evm_logs, withdrawn, htlcs, last_block, private_key, before_restart, disk, swap_state, health, dex, chain, registry, lib_call,
                 pending_swaps, pc, lock_queue, histVars, otherVars>>

(***************************************************************************)
(* EVM chain: the HTLC contract and its Locked events                      *)
(***************************************************************************)
\* topics[0] of a Locked event: the keccak of the event signature
LOCKED_TOPIC == "Locked(bytes32,address,address,address,uint256,bytes32,uint256)"

GoodLock == [token |-> USDC, recipient |-> LP_ADDR, tl |-> POLYGON_TIMELOCK_SECONDS]

LockCases ==
  { GoodLock,
    [token |-> USDC, recipient |-> LP_ADDR, tl |-> T_KPIV_SECONDS_DEFAULT],
    [token |-> "other", recipient |-> LP_ADDR, tl |-> POLYGON_TIMELOCK_SECONDS],
    [token |-> USDC, recipient |-> "otherlp", tl |-> POLYGON_TIMELOCK_SECONDS] }

\* lock(swapId, recipient, token, amount, hashlock, timelock) mined in a new block
TakerLock(c, h) ==
  /\ Len(evm_logs) < MaxLocks
  /\ evm_block' = evm_block + 1
  /\ evm_logs' = Append(evm_logs,
        [topic0 |-> LOCKED_TOPIC, block |-> evm_block + 1, swap_id |-> Len(evm_logs) + 1,
         recipient |-> c.recipient, token |-> c.token, amount |-> LOCK_UNITS, hashlock |-> h,
         timelock |-> now + c.tl])
  /\ UNCHANGED <<now, withdrawn, taker_registry, htlcs, last_block, private_key, before_restart, disk, swap_state, health, dex, chain, registry, lib_call,
                 pending_swaps, pc, lock_queue, histVars, otherVars>>

\* another lock(...) with a hashlock that an earlier lock already carries
TakerRelock(h) ==
  /\ \E k \in 1..Len(evm_logs) : evm_logs[k].hashlock = h
  /\ Len(evm_logs) < MaxLocks + MaxRelocks
  /\ evm_block' = evm_block + 1
  /\ evm_logs' = Append(evm_logs,
        [topic0 |-> LOCKED_TOPIC, block |-> evm_block + 1, swap_id |-> Len(evm_logs) + 1,
         recipient |-> GoodLock.recipient, token |-> GoodLock.token,
         amount |-> LOCK_UNITS, hashlock |-> h, timelock |-> now + GoodLock.tl])
  /\ UNCHANGED <<now, withdrawn, taker_registry, htlcs, last_block, private_key, before_restart, disk, swap_state, health, dex, chain, registry, lib_call,
                 pending_swaps, pc, lock_queue, histVars, otherVars>>

\* claim(swapId, preimage) of the contract: the requirements under which it pays out
ContractClaimOk(logs, wd, t, swap_id, p) ==
  /\ swap_id \in 1..Len(logs)
  /\ SHA256(p) = logs[swap_id].hashlock
  /\ swap_id \notin wd
  /\ t < logs[swap_id].timelock

Advance ==
  /\ now < MaxClock * TimeStep
  /\ now' = now + TimeStep
  /\ UNCHANGED <<evm_block, evm_logs, withdrawn, taker_registry, htlcs, last_block,
                 private_key, before_restart, disk, swap_state, health, dex, chain, registry, lib_call, pending_swaps, pc, lock_queue, histVars, otherVars>>

(***************************************************************************)
(* Native chain as the daemon's htlc_list reports it                       *)
(***************************************************************************)
NewHtlc(h, amount, addr, t) ==
  [hashlock |-> h, amount |-> amount, claim_addr |-> addr, status |-> "active",
   preimage |-> 0, confs |-> 0, created_time |-> t, refund_sent |-> FALSE]

\* the daemon reports HTLC j as claimed, with the preimage of the spending transaction
NativeClaim(j, p) ==
  /\ j \in 1..Len(htlcs)
  /\ htlcs[j].status = "active"
  /\ htlcs' = [htlcs EXCEPT ![j].status = "claimed", ![j].preimage = p, ![j].confs = 0]
  /\ UNCHANGED <<envVars, withdrawn, last_block, private_key, before_restart, disk, swap_state, health, dex, chain, registry, lib_call, pending_swaps, pc,
                 lock_queue, histVars, otherVars>>

\* one more block on top of the claim transaction
NativeConfirm(j) ==
  /\ j \in 1..Len(htlcs)
  /\ htlcs[j].status = "claimed"
  /\ htlcs[j].confs < N_REORG
  /\ htlcs' = [htlcs EXCEPT ![j].confs = @ + 1]
  /\ UNCHANGED <<envVars, withdrawn, last_block, private_key, before_restart, disk, swap_state, health, dex, chain, registry, lib_call, pending_swaps, pc,
                 lock_queue, histVars, otherVars>>

\* the claim transaction is reorganised out before it reached N_REORG confirmations
NativeReorg(j) ==
  /\ j \in 1..Len(htlcs)
  /\ htlcs[j].status = "claimed"
  /\ htlcs[j].confs < N_REORG
  /\ htlcs' = [htlcs EXCEPT ![j].status = "active", ![j].preimage = 0, ![j].confs = 0]
  /\ UNCHANGED <<envVars, withdrawn, last_block, private_key, before_restart, disk, swap_state, health, dex, chain, registry, lib_call, pending_swaps, pc,
                 lock_queue, histVars, otherVars>>

\* the chain height passes the HTLC's expiry height
NativeExpire(j) ==
  /\ j \in 1..Len(htlcs)
  /\ htlcs[j].status = "active"
  /\ htlcs' = [htlcs EXCEPT ![j].status = "expired"]
  /\ UNCHANGED <<envVars, withdrawn, last_block, private_key, before_restart, disk, swap_state, health, dex, chain, registry, lib_call, pending_swaps, pc,
                 lock_queue, histVars, otherVars>>

\* a broadcast refund transaction is mined
RefundMined(j) ==
  /\ j \in 1..Len(htlcs)
  /\ htlcs[j].status = "expired"
  /\ htlcs[j].refund_sent
  /\ htlcs' = [htlcs EXCEPT ![j].status = "refunded"]
  /\ UNCHANGED <<envVars, withdrawn, last_block, private_key, before_restart, disk, swap_state, health, dex, chain, registry, lib_call, pending_swaps, pc,
                 lock_queue, histVars, otherVars>>

(***************************************************************************)
(* lp_watcher.py                                                           *)
(***************************************************************************)
\* indices of the HTLCs htlc_list returns for a hashlock, in chain order
HtlcsFor(ht, h) == SelectSeq([j \in 1..Len(ht) |-> j], LAMBDA j : ht[j].hashlock = h)

\* get_htlc_by_hashlock: the first claimed HTLC, else the first one; 0 for None
get_htlc_by_hashlock(ht, h) ==
  LET js == HtlcsFor(ht, h)
      claimed == SelectSeq(js, LAMBDA j : ht[j].status = "claimed")
  IN IF Len(js) = 0 THEN 0
     ELSE IF Len(claimed) > 0 THEN claimed[1] ELSE js[1]

\* the list scan_for_locks returns when get_logs succeeds
ScanLocks(logs, from, to) ==
  LET \* get_logs with fromBlock..toBlock and topics [None, None, lp_topic], then
      \* "Only process USDC locks"
      hits == SelectSeq(logs, LAMBDA e : /\ e.block >= from
                                         /\ e.block <= to
                                         /\ e.recipient = LP_ADDR
                                         /\ e.token = USDC)
  IN \* the dict scan_for_locks appends for each log entry
     [i \in 1..Len(hits) |->
        [swap_id |-> hits[i].swap_id, recipient |-> LP_ADDR, token |-> hits[i].token,
         amount |-> hits[i].amount, hashlock |-> FromEvmData(hits[i].hashlock),
         timelock |-> hits[i].timelock]]

\* PendingSwap(...) as process_new_lock constructs it
NewPendingSwap(lock) ==
  [hashlock |-> lock.hashlock, polygon_swap_id |-> lock.swap_id,
   usdc_amount |-> lock.amount, kpiv_amount |-> lock.amount * LP_PRICE_INV,
   polygon_timelock |-> lock.timelock, kpiv_htlc_outpoint |-> 0,
   kpiv_htlc_created |-> FALSE, preimage_revealed |-> 0, usdc_claimed |-> FALSE,
   kpiv_refunded |-> FALSE]

\* a watcher that starts with a hard-coded swap nobody locked
FixturePendingSwaps ==
  <<NewPendingSwap([swap_id |-> 1, amount |-> LOCK_UNITS, hashlock |-> FromEvmData(1),
                    timelock |-> POLYGON_TIMELOCK_SECONDS])>>

\* LPWatcher.__init__: self.pending_swaps = {}
InitialPendingSwaps == <<>>

\* a watcher that never finds a hashlock among its keys
NoSwapIndex(ps, hl) == 0

\* position of a hashlock in pending_swaps, 0 when it is not a key
SwapIndex(ps, hl) ==
  LET is == {i \in 1..Len(ps) : ps[i].hashlock = hl}
  IN IF is = {} THEN 0 ELSE CHOOSE i \in is : TRUE

\* outcomes of the RPCs one handler makes for one swap
CreateOutcomes == {"lookup_fail", "create_ok", "create_fail"}
ExpiredOutcomes == {"rpc_fail", "refund_ok", "refund_fail"}

\* "create_lost", "refund_lost": the 30 s timeout of bathron_rpc expired after the
\* daemon had accepted the transaction, so the caller sees None
LossyCreateOutcomes == CreateOutcomes \cup {"create_lost"}
\* the daemon can still take an HTLC the watcher will not learn of
RoomForLost(out, ht) == out = "create_lost" => Len(ht) + 1 < MaxNativeHtlcs

Min(a, b) == IF a < b THEN a ELSE b

\* try_create_kpiv_htlc for pending_swaps[i]; st carries the state the handler touches
try_create_kpiv_htlc(st, i, out, reg, t) ==
  LET swap == st.ps[i]
      addr == IF out = "lookup_fail" THEN "" ELSE get_taker_kpiv_address(reg, swap.hashlock)
      h == Strip0x(swap.hashlock).id
      call == [hashlock |-> h, swap_id |-> swap.polygon_swap_id]
      htlc == NewHtlc(h, swap.kpiv_amount, addr, t)
  IN \* "if swap.kpiv_htlc_created: return"
     IF swap.kpiv_htlc_created THEN st
     ELSE IF addr = ""
       THEN IF out = "lookup_fail" THEN st
            ELSE [st EXCEPT !.lm[h] = Min(@ + 1, RetryBound)]
     ELSE IF out = "create_ok"
       THEN [st EXCEPT !.ps[i].kpiv_htlc_outpoint = Len(st.ht) + 1,
                       !.ps[i].kpiv_htlc_created = TRUE,
                       !.ht = Append(@, htlc), !.cc = @ \cup {call}]
     ELSE IF out = "create_lost"
       THEN [st EXCEPT !.ht = Append(@, htlc), !.cc = @ \cup {call}]
     ELSE [st EXCEPT !.cc = @ \cup {call}]

\* process_new_lock: skip a tracked hashlock, else store the swap and try to create
process_new_lock(st, lock, out, reg, t) ==
  IF SwapIndex(st.ps, lock.hashlock) # 0 THEN st
  ELSE try_create_kpiv_htlc([st EXCEPT !.ps = Append(@, NewPendingSwap(lock))],
                            Len(st.ps) + 1, out, reg, t)

RECURSIVE check_pending_htlcs(_, _, _, _, _)
check_pending_htlcs(i, st, outs, reg, t) ==
  IF i > Len(st.ps) THEN st
  ELSE check_pending_htlcs(i + 1,
         \* "if not swap.kpiv_htlc_created:"
         IF ~st.ps[i].kpiv_htlc_created
           THEN try_create_kpiv_htlc(st, i, outs[st.ps[i].hashlock.id], reg, t)
           ELSE st,
         outs, reg, t)

\* the body of check_for_reveals for pending_swaps[i]
check_for_reveals_one(st, i, out, key, t, logs) ==
  LET swap == st.ps[i]
      h == Strip0x(swap.hashlock).id
      j == IF out = "rpc_fail" THEN 0 ELSE get_htlc_by_hashlock(st.ht, h)
  IN IF swap.usdc_claimed \/ ~swap.kpiv_htlc_created THEN st
     ELSE IF j = 0 THEN st
     ELSE IF st.ht[j].status # "claimed" THEN st
     ELSE LET \* the preimage of the daemon's record, taken as it is
              p == st.ht[j].preimage
              sent == key /\ out # "claim_exc"
              mined == /\ sent
                       /\ out = "claim_mined"
                       /\ ContractClaimOk(logs, st.wd, t, swap.polygon_swap_id, p)
              claim == [hashlock |-> h, swap_id |-> swap.polygon_swap_id, preimage |-> p,
                        confs |-> st.ht[j].confs]
          IN IF p = 0 THEN st
             ELSE [st EXCEPT !.ps[i].preimage_revealed = p,
                             \* "if tx_hash: swap.usdc_claimed = True"
                             !.ps[i].usdc_claimed = sent,
                             !.wd = IF mined THEN @ \cup {swap.polygon_swap_id} ELSE @,
                             !.qc = IF sent THEN @ \cup {claim} ELSE @]

RECURSIVE check_for_reveals(_, _, _, _, _, _)
check_for_reveals(i, st, outs, key, t, logs) ==
  IF i > Len(st.ps) THEN st
  ELSE check_for_reveals(i + 1,
         check_for_reveals_one(st, i, outs[st.ps[i].hashlock.id], key, t, logs),
         outs, key, t, logs)

\* check_for_expired_htlcs without its "Already refunded" guard
SkipExpiredCheckNoRefundFlag(swap) ==
  swap.usdc_claimed \/ ~swap.kpiv_htlc_created

\* the three "continue" guards at the head of check_for_expired_htlcs
SkipExpiredCheck(swap) ==
  swap.usdc_claimed \/ ~swap.kpiv_htlc_created \/ swap.kpiv_refunded

\* the body of check_for_expired_htlcs for pending_swaps[i]
check_for_expired_one(st, i, out) ==
  LET swap == st.ps[i]
      h == Strip0x(swap.hashlock).id
      j == IF out = "rpc_fail" THEN 0 ELSE get_htlc_by_hashlock(st.ht, h)
      old == st.rh[h]
      claimed_before == \E c \in st.qc : c.hashlock = h
      sub == [old EXCEPT !.after_ok = @ \/ old.ok > 0,
                         !.after_claim = @ \/ claimed_before]
  IN IF SkipExpiredCheck(swap)
       THEN IF swap.kpiv_htlc_created /\ j # 0 /\ st.ht[j].status = "expired"
              THEN [st EXCEPT !.rh[h].skipped = TRUE]
              ELSE st
     ELSE IF j = 0 THEN st
     ELSE IF st.ht[j].status # "expired" THEN st
     ELSE IF out = "refund_ok"
       THEN [st EXCEPT !.ps[i].kpiv_refunded = TRUE,
                       !.ht[j].refund_sent = TRUE,
                       !.rh[h] = [sub EXCEPT !.ok = Min(@ + 1, 2)]]
     ELSE IF out = "refund_lost"
       THEN [st EXCEPT !.ht[j].refund_sent = TRUE, !.rh[h] = sub]
     ELSE [st EXCEPT !.rh[h] = sub]

RECURSIVE check_for_expired_htlcs(_, _, _)
check_for_expired_htlcs(i, st, outs) ==
  IF i > Len(st.ps) THEN st
  ELSE check_for_expired_htlcs(i + 1,
         check_for_expired_one(st, i, outs[st.ps[i].hashlock.id]), outs)

\* the state the handlers of one loop iteration read and write
Cur == [ps |-> pending_swaps, ht |-> htlcs, wd |-> withdrawn, cc |-> create_calls,
        qc |-> quote_claims, rh |-> refund_hist, lm |-> lookup_misses]

CommitEffects(st) ==
  /\ pending_swaps' = st.ps
  /\ htlcs' = st.ht
  /\ withdrawn' = st.wd
  /\ create_calls' = st.cc
  /\ quote_claims' = st.qc
  /\ refund_hist' = st.rh

Commit(st) == CommitEffects(st) /\ UNCHANGED lookup_misses
\* the same, also recording the lookups that found no address
CommitCounting(st) == CommitEffects(st) /\ lookup_misses' = st.lm

\* scan_for_locks with "self.last_block = current_block" after the except
\* clause, so that a query that raised advances last_block as well
ScanAdvancesOnError ==
  /\ pc = "scan"
  /\ IF evm_block <= last_block
       THEN /\ lock_queue' = <<>>
            /\ UNCHANGED <<last_block, observed>>
       ELSE \/ /\ lock_queue' = <<>>
               /\ last_block' = evm_block
               /\ UNCHANGED observed
            \/ /\ lock_queue' = ScanLocks(evm_logs, last_block + 1, evm_block)
               /\ last_block' = evm_block
               /\ observed' = observed \cup
                    {lock_queue'[i].hashlock.id : i \in 1..Len(lock_queue')}
  /\ pc' = IF lock_queue' = <<>> THEN "pending" ELSE "locks"
  /\ UNCHANGED <<envVars, withdrawn, htlcs, private_key, before_restart, disk, swap_state, health, dex, chain, registry, lib_call, pending_swaps, create_calls,
                 quote_claims, refund_hist, lookup_misses, otherVars>>

\* run, step 1: locks = scan_for_locks()
Scan ==
  /\ pc = "scan"
  /\ IF evm_block <= last_block
       THEN /\ lock_queue' = <<>>
            /\ UNCHANGED <<last_block, observed>>
       ELSE \/ \* get_logs raised: nothing returned, last_block kept
               /\ lock_queue' = <<>>
               /\ UNCHANGED <<last_block, observed>>
            \/ /\ lock_queue' = ScanLocks(evm_logs, last_block + 1, evm_block)
               /\ last_block' = evm_block
               /\ observed' = observed \cup
                    {lock_queue'[i].hashlock.id : i \in 1..Len(lock_queue')}
  /\ pc' = IF lock_queue' = <<>> THEN "pending" ELSE "locks"
  /\ UNCHANGED <<envVars, withdrawn, htlcs, private_key, before_restart, disk, swap_state, health, dex, chain, registry, lib_call, pending_swaps, create_calls,
                 quote_claims, refund_hist, lookup_misses, otherVars>>

\* run, step 1 continued: for lock in locks: process_new_lock(lock)
ProcessNewLockOver(outcomes) ==
  /\ pc = "locks"
  /\ lock_queue # <<>>
  /\ \E out \in outcomes :
       /\ RoomForLost(out, htlcs)
       /\ Commit(process_new_lock(Cur, Head(lock_queue), out, taker_registry, now))
  /\ lock_queue' = Tail(lock_queue)
  /\ pc' = IF lock_queue' = <<>> THEN "pending" ELSE "locks"
  /\ UNCHANGED <<envVars, last_block, private_key, before_restart, disk, swap_state, health, dex, chain, registry, lib_call, observed, otherVars>>

ProcessNewLock == ProcessNewLockOver(CreateOutcomes)

\* run, step 2
CheckPendingHtlcsOver(outcomes) ==
  /\ pc = "pending"
  /\ \E outs \in [HashIds -> outcomes] :
       /\ \A h \in HashIds : RoomForLost(outs[h], htlcs)
       /\ Commit(check_pending_htlcs(1, Cur, outs, taker_registry, now))
  /\ pc' = "reveals"
  /\ UNCHANGED <<envVars, last_block, private_key, before_restart, disk, swap_state, health, dex, chain, registry, lib_call, lock_queue, observed, otherVars>>

CheckPendingHtlcs == CheckPendingHtlcsOver(CreateOutcomes)

\* steps 1 and 2 of run with the registry misses recorded
ProcessNewLockCounting ==
  /\ pc = "locks"
  /\ lock_queue # <<>>
  /\ \E out \in CreateOutcomes :
       CommitCounting(process_new_lock(Cur, Head(lock_queue), out, taker_registry, now))
  /\ lock_queue' = Tail(lock_queue)
  /\ pc' = IF lock_queue' = <<>> THEN "pending" ELSE "locks"
  /\ UNCHANGED <<envVars, last_block, private_key, before_restart, disk, swap_state, health, dex, chain, registry, lib_call, observed, otherVars>>

CheckPendingHtlcsCounting ==
  /\ pc = "pending"
  /\ \E outs \in [HashIds -> CreateOutcomes] :
       CommitCounting(check_pending_htlcs(1, Cur, outs, taker_registry, now))
  /\ pc' = "reveals"
  /\ UNCHANGED <<envVars, last_block, private_key, before_restart, disk, swap_state, health, dex, chain, registry, lib_call, lock_queue, observed, otherVars>>

\* run, step 3
CheckForRevealsOver(outcomes) ==
  /\ pc = "reveals"
  /\ \E outs \in [HashIds -> outcomes] :
       Commit(check_for_reveals(1, Cur, outs, private_key, now, evm_logs))
  /\ pc' = "expired"
  /\ UNCHANGED <<envVars, last_block, private_key, before_restart, disk, swap_state, health, dex, chain, registry, lib_call, lock_queue, observed, otherVars>>

CheckForReveals ==
  CheckForRevealsOver({"rpc_fail", "claim_exc", "claim_mined", "claim_reverted"})

\* a sweep in which every RPC answers and the claim transaction is broadcast
RevealSweepSent == CheckForRevealsOver({"claim_mined", "claim_reverted"})

\* run, step 4, then time.sleep(poll_interval)
CheckForExpiredHtlcsOver(outcomes) ==
  /\ pc = "expired"
  /\ \E outs \in [HashIds -> outcomes] :
       Commit(check_for_expired_htlcs(1, Cur, outs))
  /\ pc' = "scan"
  /\ UNCHANGED <<envVars, last_block, private_key, before_restart, disk, swap_state, health, dex, chain, registry, lib_call, lock_queue, observed, otherVars>>

CheckForExpiredHtlcs == CheckForExpiredHtlcsOver(ExpiredOutcomes)

\* a sweep in which every RPC answers and the daemon accepts the refund
ExpiredSweepOk == CheckForExpiredHtlcsOver({"refund_ok"})

\* the process is stopped anywhere in the loop and started again:
\* EVMMonitor.__init__ and LPWatcher.__init__ run, then run() from its top
Restart ==
  /\ before_restart.n < MaxRestarts
  /\ before_restart' = [n |-> before_restart.n + 1, swaps |-> pending_swaps]
  /\ last_block' = evm_block - START_BLOCKS_BACK
  /\ pending_swaps' = InitialPendingSwaps
  /\ pc' = "scan"
  /\ lock_queue' = <<>>
  /\ UNCHANGED <<envVars, withdrawn, htlcs, private_key, disk, swap_state, health, dex, chain, registry, lib_call, histVars, otherVars>>

(***************************************************************************)
(* sdk/server.py: start-up and /api/register                               *)
(***************************************************************************)
\* the timelock constants as shipped, and as an operator may edit them
ServerCfgs ==
  [T_KPIV_SECONDS : {T_KPIV_SECONDS_DEFAULT, T_KPIV_SECONDS_LONG},
   T_USDC_SECONDS : {T_USDC_SECONDS_DEFAULT, POLYGON_TIMELOCK_SECONDS},
   T_BUFFER_SECONDS : {T_BUFFER_SECONDS},
   T_KPIV_BLOCKS : {DEFAULT_EXPIRY_BLOCKS, T_KPIV_BLOCKS_LONG}]

\* "assert T_USDC_SECONDS >= T_KPIV_SECONDS + T_BUFFER_SECONDS"
TimelockAssertion(cfg) ==
  cfg.T_USDC_SECONDS >= cfg.T_KPIV_SECONDS + cfg.T_BUFFER_SECONDS

\* module import: the assertion raises, or the Flask app goes on to serve
ServerStart ==
  /\ srv_phase = "import"
  /\ srv_phase' = IF TimelockAssertion(srv_cfg) THEN "serving" ELSE "aborted"
  /\ UNCHANGED <<envVars, withdrawn, htlcs, watcherVars, disk, swap_state, health, dex, chain, registry, lib_call, histVars, srv_cfg, srv_pending,
                 http_status, known_htlcs, takerVars>>

NoSwapInfo ==
  [taker_kpiv_addr |-> "", lot_id |-> "", kpiv_sent |-> FALSE,
   kpiv_htlc_created |-> FALSE, kpiv_htlc_outpoint |-> 0, kpiv_claimed |-> FALSE]
AddrInputs == TakerAddrs \cup {"", "0xEvm"}

\* taker_kpiv_addr.startswith('x') or taker_kpiv_addr.startswith('y')
IsBathronAddress(a) == a \in TakerAddrs

\* api_register_swap: the new value of pending_swaps
ApiRegisterStore(sp, s, a, lot) ==
  [sp EXCEPT ![s] = [NoSwapInfo EXCEPT !.taker_kpiv_addr = a, !.lot_id = lot]]

ApiRegisterSwap(s, a, lot) ==
  /\ srv_phase = "serving"
  /\ IF a = "" \/ ~IsBathronAddress(a)
       THEN /\ http_status' = 400
            /\ UNCHANGED srv_pending
       ELSE /\ http_status' = 200
            /\ srv_pending' = ApiRegisterStore(srv_pending, s, a, lot)
  /\ UNCHANGED <<envVars, withdrawn, htlcs, watcherVars, disk, swap_state, health, dex, chain, registry, lib_call, histVars, srv_cfg, srv_phase,
                 known_htlcs, takerVars>>

\* api_taker_address: try the hashlock without and with the 0x prefix
ApiTakerAddress(sp, s) ==
  LET clean == Strip0x(Lower(s))
      with_prefix == [clean EXCEPT !.pfx = TRUE]
  IN IF sp[clean].taker_kpiv_addr # "" THEN sp[clean].taker_kpiv_addr
     ELSE sp[with_prefix].taker_kpiv_addr

\* swap_watcher.py do_POST /api/register_taker
PostRegisterTaker(s, a) ==
  /\ IF a = ""
       THEN /\ http_status' = 400
            /\ UNCHANGED taker_registry
       ELSE /\ http_status' = 200
            /\ taker_registry' = RegisterTakerStore(taker_registry, s, a)
  /\ UNCHANGED <<now, evm_block, evm_logs, withdrawn, htlcs, watcherVars, disk, swap_state, health, dex, chain, registry, lib_call, histVars,
                 srv_cfg, srv_phase, srv_pending, known_htlcs, takerVars>>

(***************************************************************************)
(* sdk/server.py: known_htlcs, /api/htlc/create_kpiv, /api/htlc/claim_kpiv *)
(***************************************************************************)
\* the two testnet hashlocks the module's known_htlcs literal carries
FixtureHashIds == {2, 3}
KnownIds == HashIds \cup FixtureHashIds
\* known_htlcs as the module defines it: the two testnet HTLCs, status "locked";
\* their outpoints are transactions the model's chain does not hold
InitialKnownHtlcs ==
  [k \in KnownIds |->
     IF k \in FixtureHashIds THEN [status |-> "locked", outpoint |-> 0 - k]
     ELSE [status |-> "none", outpoint |-> 0]]

\* what bathron_rpc can return for htlc_create_kpiv and htlc_claim_kpiv
ServerRpcOutcomes == {"rpc_ok", "rpc_none"}

\* api_create_kpiv_htlc
ApiCreateKpivHtlc(s, a, out) ==
  /\ srv_phase = "serving"
  /\ IF a = "" \/ ~IsBathronAddress(a)
       THEN /\ http_status' = 400
            /\ UNCHANGED <<htlcs, srv_pending, known_htlcs>>
       ELSE IF out = "rpc_none"
       THEN /\ http_status' = 500
            /\ UNCHANGED <<htlcs, srv_pending, known_htlcs>>
       ELSE /\ Len(htlcs) < MaxNativeHtlcs
            /\ http_status' = 200
            /\ htlcs' = Append(htlcs, NewHtlc(s.id, LOCK_UNITS * LP_PRICE_INV, a, now))
            \* "if hashlock in pending_swaps: pending_swaps[hashlock].update({...})"
            /\ srv_pending' =
                 IF srv_pending[s] = NoSwapInfo THEN srv_pending
                 ELSE [srv_pending EXCEPT ![s].kpiv_htlc_created = TRUE,
                                          ![s].kpiv_htlc_outpoint = Len(htlcs) + 1]
            \* "known_htlcs[hashlock_clean] = {..., 'status': 'locked', ...}"
            /\ known_htlcs' =
                 [known_htlcs EXCEPT ![Strip0x(Lower(s)).id] =
                    [status |-> "locked", outpoint |-> Len(htlcs) + 1]]
  /\ UNCHANGED <<envVars, withdrawn, watcherVars, disk, swap_state, health, dex, chain, registry, lib_call, histVars, srv_cfg, srv_phase, takerVars>>

\* the outpoint api_claim_kpiv_htlc claims: daemon tracking first, known_htlcs as fallback
ApiClaimOutpoint(ht, kh, s) ==
  LET \* htlc_list 'locked' searched for the normalised hashlock: first match, 0 for none
      js == SelectSeq(HtlcsFor(ht, Strip0x(Lower(s)).id), LAMBDA j : ht[j].status = "active")
      found == IF Len(js) = 0 THEN 0 ELSE js[1]
      known == kh[Strip0x(Lower(s)).id]
  IN IF found # 0 THEN found
     ELSE IF known.status # "none" THEN known.outpoint
     ELSE 0

\* htlc_claim_kpiv of the daemon: the HTLC is unspent and the preimage opens it
DaemonClaimOk(ht, outpoint, p) ==
  /\ outpoint \in 1..Len(ht)
  /\ ht[outpoint].status = "active"
  /\ SHA256(p) = ht[outpoint].hashlock

\* api_claim_kpiv_htlc, called with a hashlock and a preimage
ApiClaimKpivHtlc(s, p, out) ==
  LET outpoint == ApiClaimOutpoint(htlcs, known_htlcs, s)
  IN /\ srv_phase = "serving"
     /\ IF outpoint = 0
          THEN /\ http_status' = 404
               /\ UNCHANGED <<htlcs, srv_pending, known_htlcs>>
          ELSE IF out = "rpc_none"
          THEN /\ http_status' = 500
               /\ UNCHANGED <<htlcs, srv_pending, known_htlcs>>
          ELSE IF ~DaemonClaimOk(htlcs, outpoint, p)
          THEN /\ http_status' = 400
               /\ UNCHANGED <<htlcs, srv_pending, known_htlcs>>
          ELSE /\ http_status' = 200
               /\ htlcs' = [htlcs EXCEPT ![outpoint].status = "claimed",
                                         ![outpoint].preimage = p, ![outpoint].confs = 0]
               \* "if hashlock and hashlock in pending_swaps: ...update({...})"
               /\ srv_pending' =
                    IF srv_pending[s] = NoSwapInfo THEN srv_pending
                    ELSE [srv_pending EXCEPT ![s].kpiv_claimed = TRUE]
               \* "if hashlock_clean in known_htlcs: ...['status'] = 'claimed'"
               /\ known_htlcs' =
                    LET k == Strip0x(Lower(s)).id
                    IN IF known_htlcs[k].status = "none" THEN known_htlcs
                       ELSE [known_htlcs EXCEPT ![k].status = "claimed"]
     /\ UNCHANGED <<envVars, withdrawn, watcherVars, disk, swap_state, health, dex, chain, registry, lib_call, histVars, srv_cfg, srv_phase, takerVars>>

(***************************************************************************)
(* Persistence: Registry.save, LPBot.save_state, LOTManager._save_lots     *)
(***************************************************************************)
Stores == {"registry", "lp_bot", "lots"}

\* a file holds the complete JSON document of version v (whole), is torn
\* (truncated or written in part: not whole, v = 0), or does not exist (v = -1)
DiskInit ==
  disk = [s \in Stores |->
            [target |-> [whole |-> TRUE, v |-> 0], tmp |-> [whole |-> FALSE, v |-> 0 - 1],
             mem |-> 0, at |-> "idle"]]

\* Registry.save: open(tmp_file, "w"); json.dump(data, f); tmp_file.rename(PERSISTENCE_FILE)
RegistrySaveStep(f) ==
  IF f.at = "idle"
    THEN [f EXCEPT !.mem = @ + 1, !.tmp = [whole |-> FALSE, v |-> 0], !.at = "opened"]
  ELSE IF f.at = "opened"
    THEN [f EXCEPT !.tmp = [whole |-> TRUE, v |-> f.mem], !.at = "written"]
  ELSE [f EXCEPT !.target = f.tmp, !.tmp = [whole |-> FALSE, v |-> 0 - 1], !.at = "idle"]

\* LPBot.save_state (state_file.write_text) and LOTManager._save_lots
\* (open(self.storage_path, "w"); json.dump): the target is opened for writing,
\* which truncates it, and then written
InPlaceSaveStep(f) ==
  IF f.at = "idle"
    THEN [f EXCEPT !.mem = @ + 1, !.target = [whole |-> FALSE, v |-> 0], !.at = "opened"]
  ELSE [f EXCEPT !.target = [whole |-> TRUE, v |-> f.mem], !.at = "idle"]

\* one step of a save of store s
SaveStep(s) ==
  /\ disk[s].at \in {"idle", "opened", "written"}
  /\ disk[s].at = "idle" => disk[s].mem < MaxSaves
  /\ disk' = [disk EXCEPT ![s] = IF s = "registry" THEN RegistrySaveStep(disk[s])
                                    ELSE InPlaceSaveStep(disk[s])]
  /\ UNCHANGED <<envVars, withdrawn, htlcs, watcherVars, swap_state, health, dex, chain, registry, lib_call, histVars, otherVars>>

\* the process of store s is killed while a save is under way
Crash(s) ==
  /\ disk[s].at \in {"opened", "written"}
  /\ disk' = [disk EXCEPT ![s].at = "crashed"]
  /\ UNCHANGED <<envVars, withdrawn, htlcs, watcherVars, swap_state, health, dex, chain, registry, lib_call, histVars, otherVars>>

(***************************************************************************)
(* swap_watcher.py: compute_swap_state and derive_states                   *)
(***************************************************************************)
\* SwapState(swap_id="", hashlock=hashlock): the dataclass defaults; secret 0 is None
NewSwapState ==
  [piv_lot_outpoint |-> 0, piv_lot_status |-> "unknown", evm_locked |-> FALSE,
   evm_claimed |-> FALSE, evm_time_left |-> 0, taker_state |-> "browse",
   taker_action |-> "Select a LOT", lp_state |-> "inventory",
   lp_action |-> "Wait for taker", secret_revealed |-> FALSE, secret |-> 0,
   evm_timelock |-> 0, evm_refunded |-> FALSE,
   seen |-> [lot |-> "", htlc |-> ""], derived |-> FALSE]

\* compute_swap_state, steps 1 to 3: lot is the status of the LOT found ("" for
\* none), saved the secret get_lot_secret returned, htlc the condition of the
\* quote HTLC whose Locked event get_htlc_by_hashlock found ("" for none; a
\* refunded HTLC keeps its Locked event and has no Claimed event), timelock its
\* timelock and t the time; seen records what the chains held
ComputeRaw(lot, saved, htlc, timelock, t) ==
  LET left == timelock - t
      s0 == [NewSwapState EXCEPT !.seen = [lot |-> lot, htlc |-> htlc]]
      s1 == IF lot = "" THEN s0
            ELSE [s0 EXCEPT !.piv_lot_outpoint = 1, !.piv_lot_status = lot,
                    !.secret_revealed = (lot = "claimed"),
                    !.secret = IF lot = "claimed" THEN TakerSecret ELSE 0]
      s2 == IF saved # 0 THEN [s1 EXCEPT !.secret = saved] ELSE s1
      s3 == IF htlc = "" THEN s2
            ELSE [s2 EXCEPT !.evm_locked = TRUE, !.evm_timelock = timelock,
                            !.evm_time_left = IF left > 0 THEN left ELSE 0]
  IN IF htlc = "claimed"
       THEN [s3 EXCEPT !.evm_claimed = TRUE, !.secret_revealed = TRUE,
                       !.secret = TakerSecret]
       ELSE s3

\* derive_states: the LP state machine, then the taker state machine
derive_states(state) ==
  LET lp ==
        IF state.piv_lot_status = "expired"
          THEN [state EXCEPT !.lp_state = "expired", !.lp_action = "Refund your KPIV"]
        ELSE IF state.evm_claimed
          THEN [state EXCEPT !.lp_state = "claimed", !.lp_action = "Done! USDC claimed"]
        ELSE IF state.evm_locked /\ state.secret # 0
          THEN [state EXCEPT !.lp_state = "taken", !.lp_action = "Claim USDC now!"]
        ELSE IF state.evm_locked
          THEN [state EXCEPT !.lp_state = "taken",
                             !.lp_action = "Taker locked funds - claim when ready"]
        ELSE IF state.piv_lot_outpoint # 0
          THEN [state EXCEPT !.lp_state = "inventory", !.lp_action = "Waiting for taker"]
        ELSE state
  IN IF lp.piv_lot_status = "claimed"
       THEN [lp EXCEPT !.taker_state = "completed", !.taker_action = "Done! KPIV received"]
     ELSE IF lp.secret_revealed /\ lp.evm_locked
       THEN [lp EXCEPT !.taker_state = "claimable", !.taker_action = "Claim KPIV now!"]
     ELSE IF lp.evm_locked /\ lp.evm_time_left <= 0
       THEN [lp EXCEPT !.taker_state = "refundable",
                       !.taker_action = "Timeout - refund your USDC"]
     ELSE IF lp.evm_locked
       THEN [lp EXCEPT !.taker_state = "locked",
                       !.taker_action = "Waiting for LP (" \o
                          ToString(lp.evm_time_left \div 3600) \o "h left)"]
     ELSE IF lp.piv_lot_outpoint # 0
       THEN [lp EXCEPT !.taker_state = "browse", !.taker_action = "Lock USDC to start swap"]
     ELSE lp

\* compute_swap_state, step 4: state = derive_states(state)
DeriveStates ==
  /\ ~swap_state.derived
  /\ swap_state' = [derive_states(swap_state) EXCEPT !.derived = TRUE]
  /\ UNCHANGED <<envVars, withdrawn, htlcs, watcherVars, disk, lib_call, chain, registry, dex,
                 health, histVars, otherVars>>

(***************************************************************************)
(* Library functions: sdk/htlc_wrapper.py, lp_bot.py                       *)
(***************************************************************************)
\* HTLCWrapper.is_refundable: status "" stands for self.get(outpoint) finding nothing
is_refundable(status, expiry_height, current_height) ==
  IF status = "" THEN FALSE
  ELSE IF status \in {"claimed", "refunded"} THEN FALSE
  ELSE IF current_height < expiry_height THEN FALSE
  ELSE TRUE

\* is_refundable called for an HTLC created at block M with expiry M + 120
IsRefundableCall ==
  \E status \in {"", "pending", "locked", "expired", "claimed", "refunded"},
     M \in {0, START_BLOCKS_BACK}, d \in {0 - 1, 0, 1} :
    /\ lib_call' = [fn |-> "is_refundable", status |-> status,
                expiry_height |-> M + DEFAULT_EXPIRY_BLOCKS,
                current_height |-> M + DEFAULT_EXPIRY_BLOCKS + d,
                out |-> is_refundable(status, M + DEFAULT_EXPIRY_BLOCKS,
                                      M + DEFAULT_EXPIRY_BLOCKS + d)]
    /\ UNCHANGED <<envVars, withdrawn, htlcs, watcherVars, disk, swap_state, health, dex, chain, registry, histVars,
                   otherVars>>

\* byte strings handed to the SDK as hex text: the empty string, one byte, and
\* two 32-byte values; hex FALSE is text that bytes.fromhex refuses
ByteStrings == {[len |-> 0, id |-> 0]} \cup [len : {1, 32}, id : {1, 2}]
\* HTLCWrapper.verify_preimage: hashlib.sha256(bytes.fromhex(preimage)).hexdigest()
\* is the lower-case digest of the bytes; sha256 is taken as injective, the
\* digest named after the bytes hashed; any exception gives False
verify_preimage(hashlock, preimage) ==
  IF ~preimage.hex THEN FALSE
  ELSE [of |-> preimage.bytes, up |-> FALSE] = [hashlock EXCEPT !.up = FALSE]

VerifyPreimageCall ==
  \E of \in ByteStrings, up \in BOOLEAN, preimage \in [bytes : ByteStrings, hex : BOOLEAN] :
    /\ lib_call' = [fn |-> "verify_preimage", hashlock |-> [of |-> of, up |-> up],
                    preimage |-> preimage,
                    out |-> verify_preimage([of |-> of, up |-> up], preimage)]
    /\ UNCHANGED <<envVars, withdrawn, htlcs, watcherVars, disk, swap_state, health, dex, chain, registry, histVars,
                   otherVars>>

RECURSIVE ExtractFrom(_, _)
\* LPBot.extract_preimage_from_scriptsig from position pos on; <<>> stands for
\* None, and a byte sequence for its lower-case hex text. data[pos] past the
\* end raises IndexError, which the function swallows.
ExtractFrom(data, pos) ==
  IF pos >= Len(data) THEN <<>>
  ELSE LET push_len == data[pos + 1]
       IN IF push_len = 0 THEN ExtractFrom(data, pos + 1)
          ELSE IF push_len = 32
            THEN LET \* data[pos:pos+32] of Python, positions counted from 0 after the push byte
                     preimage == IF pos + 1 >= Len(data) THEN <<>>
                                 ELSE SubSeq(data, pos + 2, Min(pos + 33, Len(data)))
                 IN IF /\ preimage # [i \in 1..32 |-> 0]
                       /\ ~(Len(preimage) > 0 /\ preimage[1] \in {2, 3})
                      THEN preimage
                      ELSE ExtractFrom(data, pos + 33)
          ELSE IF push_len <= 75 THEN ExtractFrom(data, pos + 1 + push_len)
          ELSE IF push_len = 76
            THEN IF pos + 1 >= Len(data) THEN <<>>
                 ELSE ExtractFrom(data, pos + 2 + data[pos + 2])
          ELSE IF push_len = 77
            THEN LET lo == IF pos + 1 < Len(data) THEN data[pos + 2] ELSE 0
                     hi == IF pos + 2 < Len(data) THEN data[pos + 3] ELSE 0
                 IN ExtractFrom(data, pos + 3 + lo + 256 * hi)
          ELSE ExtractFrom(data, pos + 1)

extract_preimage_from_scriptsig(data) == ExtractFrom(data, 0)

\* the claim-path scriptSig <sig> <preimage> <1> <redeemscript>: direct pushes
\* of the signature and of the 32 bytes, the 1 as OP_1 or as a one-byte push,
\* and the redeem script behind OP_PUSHDATA1
\* extract_preimage_from_scriptsig called on the claim scriptSig of a preimage
\* whose first byte is first and whose other bytes are fill
ExtractPreimageCall ==
  \E first \in {0, 2, 3, 171}, fill \in {0, 205}, siglen \in {71, 72},
     one \in {<<81>>, <<1, 1>>} :
    LET S == [i \in 1..32 |-> IF i = 1 THEN first ELSE fill]
        sig == [i \in 1..siglen |-> 48]
        redeem == <<99, 168, 32>> \o [i \in 1..32 |-> 238] \o [i \in 1..60 |-> 172]
    IN /\ lib_call' = [fn |-> "extract_preimage_from_scriptsig", S |-> S,
                       out |-> extract_preimage_from_scriptsig(
                                 <<Len(sig)>> \o sig \o <<32>> \o S \o one \o
                                 <<76, Len(redeem)>> \o redeem)]
       /\ UNCHANGED <<envVars, withdrawn, htlcs, watcherVars, disk, swap_state, health, dex, chain, registry, histVars,
                      otherVars>>

\* RPCClient.htlc_create_kpiv: the params list given to _call
htlc_create_kpiv(hashlock, amount, claim_addr, expiry_blocks, claim_signing_addr, refund_dest, refund_signing_addr) ==
  <<hashlock, amount, claim_addr, expiry_blocks>> \o
  (IF claim_signing_addr # ""
     THEN <<claim_signing_addr>> \o
          (IF refund_dest # ""
             THEN <<refund_dest>> \o
                  (IF refund_signing_addr # "" THEN <<refund_signing_addr>> ELSE <<>>)
             ELSE <<>>)
     ELSE <<>>)

\* HTLCWrapper.create: the params of the htlc_create_kpiv RPC it causes
HTLCWrapper_create(hashlock, amount, claim_addr, expiry_blocks, claim_signing_addr, refund_dest, refund_signing_addr) ==
  htlc_create_kpiv(hashlock, amount, claim_addr, expiry_blocks, claim_signing_addr,
                   refund_dest, refund_signing_addr)

\* HTLCWrapper.create called with each optional argument given or left empty
HtlcWrapperCreateCall ==
  \E claim_signing_addr \in {"", "yTakerHot"}, refund_dest \in {"", "yLpCold"},
     refund_signing_addr \in {"", "yLpHot"}, expiry_blocks \in {DEFAULT_EXPIRY_BLOCKS, 720} :
    /\ lib_call' = [fn |-> "create", claim_signing_addr |-> claim_signing_addr,
                    refund_dest |-> refund_dest, refund_signing_addr |-> refund_signing_addr,
                    out |-> HTLCWrapper_create("h1", LOCK_UNITS, "yTaker", expiry_blocks,
                              claim_signing_addr, refund_dest, refund_signing_addr)]
    /\ UNCHANGED <<envVars, withdrawn, htlcs, watcherVars, disk, swap_state, health, dex, chain, registry,
                   histVars, otherVars>>

\* LPBot.process_revealed_preimage: the new value of state["claimed_swaps"].
\* claimer: a PolygonClaimer is configured; result: what claimer.claim returns,
\* "" for None, "already_claimed", or the hash of the claim transaction
process_revealed_preimage(claimed_swaps, hashlock, claimer, result) ==
  IF ~claimer THEN Append(claimed_swaps, hashlock)
  ELSE IF result # "" THEN Append(claimed_swaps, hashlock)
  ELSE claimed_swaps

\* process_revealed_preimage called for a revealed preimage that check_htlc_list
\* returned: its hashlock is not in claimed_swaps
ProcessRevealedPreimageCall ==
  \E claimed_swaps \in {<<>>, <<"h2">>}, claimer \in BOOLEAN,
     result \in {"", "already_claimed", "0xclaimtx"} :
    /\ lib_call' = [fn |-> "process_revealed_preimage", claimed_swaps |-> claimed_swaps,
                    hashlock |-> "h1", claimer |-> claimer, result |-> result,
                    out |-> process_revealed_preimage(claimed_swaps, "h1", claimer, result)]
    /\ UNCHANGED <<envVars, withdrawn, htlcs, watcherVars, disk, swap_state, health, dex, chain, registry,
                   histVars, otherVars>>

\* scan_for_locks over one log entry of the HTLC contract: a Locked event or an
\* event of another type whose third topic and data have the same layout
ScanForLocksCall ==
  \E topic0 \in {LOCKED_TOPIC, "Settled(bytes32,address,address,address,uint256,bytes32,uint256)"},
     c \in LockCases, h \in HashIds :
    LET entry == [topic0 |-> topic0, block |-> 1, swap_id |-> 1, recipient |-> c.recipient,
                  token |-> c.token, amount |-> LOCK_UNITS, hashlock |-> h,
                  timelock |-> TimeStep + c.tl]
    IN /\ lib_call' = [fn |-> "scan_for_locks", logs |-> <<entry>>,
                       out |-> ScanLocks(<<entry>>, 1, 1)]
       /\ UNCHANGED <<envVars, withdrawn, htlcs, watcherVars, disk, swap_state, health, dex, chain, registry,
                      histVars, otherVars>>

(***************************************************************************)
(* pna-registry/registry_service.py: endpoint validation.  A URL is its    *)
(* scheme and its host; a host is a literal IPv4 address or a DNS name     *)
(* together with the address the name resolves to.                         *)
(***************************************************************************)
\* "ip in net" for some net of _PRIVATE_NETWORKS, the IPv4 networks
InPrivateNetworks(ip) ==
  \/ ip[1] = 127
  \/ ip[1] = 10
  \/ ip[1] = 172 /\ ip[2] \in 16..31
  \/ ip[1] = 192 /\ ip[2] = 168
  \/ ip[1] = 169 /\ ip[2] = 254

\* is_valid_lp_endpoint(url): ipaddress.ip_address(hostname) raises ValueError
\* for a DNS name, and the function then allows the URL without resolving it
is_valid_lp_endpoint(url) ==
  IF url.scheme \notin {"http", "https"} THEN FALSE
  ELSE IF url.host.kind = "none" THEN FALSE
  ELSE IF url.host.kind = "ip" /\ InPrivateNetworks(url.host.addr) THEN FALSE
  ELSE TRUE

\* is_valid_lp_endpoint called on URLs of every scheme and kind of host
IsValidLpEndpointCall ==
  \E scheme \in {"http", "https", "ftp"}, kind \in {"ip", "dns", "none"},
     addr \in {<<127, 0, 0, 1>>, <<10, 1, 2, 3>>, <<172, 16, 0, 1>>, <<172, 31, 9, 9>>,
               <<172, 32, 0, 1>>, <<192, 168, 1, 1>>, <<169, 254, 1, 1>>,
               <<57, 129, 4, 7>>, <<8, 8, 8, 8>>} :
    LET url == [scheme |-> scheme, host |-> [kind |-> kind, addr |-> addr]]
    IN /\ lib_call' = [fn |-> "is_valid_lp_endpoint", url |-> url,
                       out |-> is_valid_lp_endpoint(url)]
       /\ UNCHANGED <<envVars, withdrawn, htlcs, watcherVars, disk, swap_state, health, dex, chain, registry, histVars,
                      otherVars>>

(***************************************************************************)
(* pna-registry/registry_service.py: the LP registry and its block         *)
(* scanner.  A block carries at most one PNA transaction: its txid, its    *)
(* sender ("" for a block without one) and its payload, UNREG or an        *)
(* endpoint.  The hash of a block is the chain up to it.                   *)
(***************************************************************************)
START_SCAN_HEIGHT == 1
REORG_WALK_BACK == 100

LpAddresses == {"lpA", "lpB"}

\* value of Registry.lps for an address that is not a key
NoLp == [endpoint |-> [scheme |-> "", host |-> [kind |-> "none", addr |-> <<>>]],
         txid |-> 0, height |-> 0]

\* Registry.__init__ with no persistence file; reorg_seen is history: the
\* scanner has detected a reorganisation
NewRegistry ==
  [lps |-> [a \in LpAddresses |-> NoLp], last_scanned_height |-> 0,
   last_scanned_hash |-> <<>>, reorg_seen |-> FALSE]

\* Registry.register
register(lps, address, endpoint, txid, height) ==
  IF lps[address] # NoLp /\ lps[address].height >= height THEN lps
  ELSE [a \in LpAddresses |->
          IF a = address THEN [endpoint |-> endpoint, txid |-> txid, height |-> height]
          ELSE IF lps[a] # NoLp /\ lps[a].endpoint = endpoint /\ lps[a].height < height
            THEN NoLp
          ELSE lps[a]]

\* Registry.unregister
unregister(lps, address, height) ==
  IF lps[address] # NoLp /\ lps[address].height < height
    THEN [lps EXCEPT ![address] = NoLp]
    ELSE lps

\* scan_block(height) when its RPCs succeed: the new value of registry.lps
scan_block(lps, blk, height) ==
  IF blk.sender = "" THEN lps
  ELSE IF blk.unreg THEN unregister(lps, blk.sender, height)
  ELSE IF is_valid_lp_endpoint(blk.endpoint)
    THEN register(lps, blk.sender, blk.endpoint, blk.txid, height)
  ELSE lps

RECURSIVE ScanBlocks(_, _, _, _)
\* "for h in range(start, ...): scan_block(h)" over the blocks from..to of ch
ScanBlocks(lps, ch, from, to) ==
  IF from > to THEN lps
  ELSE ScanBlocks(scan_block(lps, ch[from], from), ch, from + 1, to)

\* rpc("getblockhash", h): <<>> stands for None
GetBlockHash(ch, h) == IF h \in 1..Len(ch) THEN SubSeq(ch, 1, h) ELSE <<>>

\* one iteration of block_scanner_loop in which getblockcount answers; the
\* first `scanned` calls of scan_block succeed
BlockScannerLoop(scanned) ==
  LET chain_height == Len(chain)
      current_hash == GetBlockHash(chain, registry.last_scanned_height)
      reorg == /\ registry.last_scanned_hash # <<>>
               /\ registry.last_scanned_height > 0
               /\ current_hash # <<>>
               /\ current_hash # registry.last_scanned_hash
      \* "for _ in range(100): fork_height -= 1; if fork_height < START_SCAN_HEIGHT: ..."
      fork_height ==
        IF registry.last_scanned_height - REORG_WALK_BACK < START_SCAN_HEIGHT
          THEN START_SCAN_HEIGHT
          ELSE registry.last_scanned_height - REORG_WALK_BACK
      walked == IF reorg
                  THEN [registry EXCEPT
                          !.lps = [a \in LpAddresses |->
                                     IF @[a].height <= fork_height THEN @[a] ELSE NoLp],
                          !.last_scanned_height = fork_height,
                          !.last_scanned_hash = GetBlockHash(chain, fork_height),
                          !.reorg_seen = TRUE]
                  ELSE registry
      start == IF reorg THEN fork_height + 1
               ELSE IF registry.last_scanned_height + 1 > START_SCAN_HEIGHT
                 THEN registry.last_scanned_height + 1
               ELSE START_SCAN_HEIGHT
  IN /\ scanned \in 0..(IF start <= chain_height THEN chain_height + 1 - start ELSE 0)
     /\ registry' =
          IF scanned > 0
            THEN [walked EXCEPT
                    !.lps = ScanBlocks(@, chain, start, start + scanned - 1),
                    !.last_scanned_height = start + scanned - 1,
                    !.last_scanned_hash = GetBlockHash(chain, start + scanned - 1)]
            ELSE walked
     /\ UNCHANGED <<envVars, withdrawn, htlcs, watcherVars, disk, swap_state, health, dex, lib_call, chain,
                    histVars, otherVars>>

\* one iteration of block_scanner_loop that detects no reorganisation and scans
\* one block, whose PNA transaction scan_block passes over: getrawtransaction
\* fails, get_sender_address returns None, scan_block logs a warning, goes on
\* with "continue" and returns 0
BlockScannerLoopNoSender ==
  LET start == IF registry.last_scanned_height + 1 > START_SCAN_HEIGHT
                 THEN registry.last_scanned_height + 1
                 ELSE START_SCAN_HEIGHT
  IN /\ start <= Len(chain)
     /\ chain[start].sender # ""
     /\ registry.last_scanned_hash \in {<<>>, GetBlockHash(chain, registry.last_scanned_height)}
     /\ registry' = [registry EXCEPT !.last_scanned_height = start,
                                     !.last_scanned_hash = GetBlockHash(chain, start)]
     /\ UNCHANGED <<envVars, withdrawn, htlcs, watcherVars, disk, swap_state, health, dex, lib_call,
                    chain, histVars, otherVars>>

\* the blocks the chain can carry: no PNA transaction, PNA|UNREG, or PNA|<endpoint>
\* with an endpoint that is_valid_lp_endpoint accepts or one it rejects
ChainBlocks ==
  {[txid |-> 0, sender |-> "", unreg |-> FALSE, endpoint |-> NoLp.endpoint]} \cup
  [txid : {1}, sender : LpAddresses, unreg : {TRUE}, endpoint : {NoLp.endpoint}] \cup
  {[txid |-> x[1], sender |-> x[2], unreg |-> FALSE,
    endpoint |-> [scheme |-> "https", host |-> [kind |-> "dns", addr |-> <<57, 129, 4, 7>>]]] :
     x \in {<<1, "lpA">>, <<2, "lpA">>, <<1, "lpB">>}} \cup
  {[txid |-> 1, sender |-> "lpA", unreg |-> FALSE,
    endpoint |-> [scheme |-> "http", host |-> [kind |-> "ip", addr |-> <<10, 1, 2, 3>>]]]}

\* the chain grows by one block
MineBlock(blk) ==
  /\ Len(chain) < MaxHeight
  /\ chain' = Append(chain, blk)
  /\ UNCHANGED <<envVars, withdrawn, htlcs, watcherVars, disk, swap_state, health, dex, lib_call, registry,
                 histVars, otherVars>>

\* the chain reorganises: the blocks above height f, a height the scanner's
\* walk back reaches, are replaced by as many blocks of another branch, b1
\* and then b2
Reorg(f, b1, b2) ==
  /\ f \in START_SCAN_HEIGHT..(Len(chain) - 1)
  /\ Len(chain) - f < 2 => b2 = b1
  /\ b1 # chain[f + 1]
  /\ chain' = SubSeq(chain, 1, f) \o SubSeq(<<b1, b2>>, 1, Len(chain) - f)
  /\ UNCHANGED <<envVars, withdrawn, htlcs, watcherVars, disk, swap_state, health, dex, lib_call, registry,
                 histVars, otherVars>>

\* three calls of Registry.register / Registry.unregister on an empty registry,
\* as scan_block makes them for the PNA transactions of blocks of
\* non-decreasing height (a block can carry several)
RegistryCalls ==
  \E ops \in [1..3 -> [unreg : BOOLEAN, address : LpAddresses, host : {1, 2},
                       later : BOOLEAN]] :
    LET \* the endpoint of call k: https://lp1.example or https://lp2.example
        endpoint(k) == [scheme |-> "https",
                        host |-> [kind |-> "dns", addr |-> <<57, 129, 4, ops[k].host>>]]
        \* the height of call k: the block of the call before, or the next block
        height(k) == 1 + Cardinality({j \in 2..k : ops[j].later})
        apply(lps, k) == IF ops[k].unreg THEN unregister(lps, ops[k].address, height(k))
                         ELSE register(lps, ops[k].address, endpoint(k), k, height(k))
    IN /\ ~ops[1].later
       /\ \A k \in 1..3 : ops[k].unreg => ops[k].host = 1
       /\ lib_call' = [fn |-> "registry", ops |-> ops,
                       out |-> apply(apply(apply(NewRegistry.lps, 1), 2), 3)]
       /\ UNCHANGED <<envVars, withdrawn, htlcs, watcherVars, disk, swap_state, health, dex, chain, registry,
                      histVars, otherVars>>

(***************************************************************************)
(* dex-daemon.py: DexDaemon.  Take t has swap_id <<"swap", t>> and its LOT *)
(* the outpoint <<"lot", t>>.                                              *)
(***************************************************************************)
\* DexDaemon.__init__: processed_takes = set(); per take, history: its LOT has
\* been released, verify_payment calls made for it (counted up to 2), and
\* whether one of them came after the release
NewDexDaemon ==
  [processed_takes |-> {},
   hist |-> [t \in 1..MaxTakes |-> [released |-> FALSE, verified |-> 0, again |-> FALSE]]]

\* process_pending_takes with process_single_take and try_release: the daemon
\* lists the takes of `pending`, and the RPCs made for take t end as outs[t]
ProcessPendingTakes ==
  \E pending \in SUBSET (1..MaxTakes),
     outs \in [1..MaxTakes -> {"no_conditions", "unpaid", "attest_fail", "no_quorum",
                               "release_fail", "released"}] :
    LET \* process_single_take(outpoint, take), then try_release(outpoint)
        single(d, t) ==
          IF outs[t] = "no_conditions" THEN d
          ELSE [d EXCEPT
                  !.hist[t].verified = Min(@ + 1, 2),
                  !.hist[t].again = @ \/ d.hist[t].released,
                  !.hist[t].released = @ \/ outs[t] = "released",
                  \* "self.processed_takes.add(outpoint)"
                  !.processed_takes = IF outs[t] = "released" THEN @ \cup {<<"lot", t>>}
                                      ELSE @]
        RECURSIVE loop(_, _)
        \* "for take in pending: ... if swap_id in self.processed_takes: continue"
        loop(d, t) ==
          IF t > MaxTakes THEN d
          ELSE loop(IF t \in pending /\ <<"swap", t>> \notin d.processed_takes
                      THEN single(d, t) ELSE d,
                    t + 1)
    IN /\ dex' = loop(dex, 1)
       /\ UNCHANGED <<envVars, withdrawn, htlcs, watcherVars, disk, swap_state, health, lib_call, chain,
                      registry, histVars, otherVars>>

(***************************************************************************)
(* registry_service.py: the health checker.  An LPEntry is an object: the  *)
(* coroutine check_lp_health keeps the one it was given across its awaits, *)
(* also after the block scanner has replaced or deleted the entry of that  *)
(* address in registry.lps.  The coroutines of the service share one event *)
(* loop, so the code between two awaits is one step.                       *)
(***************************************************************************)
OFFLINE_THRESHOLD == 3

\* no health check is running: per address the LPEntry in registry.lps (its
\* status is "none" for an address that is not a key), and the coroutine
\* check_lp_health started for it: where it waits, whether its lp is still the
\* entry of registry.lps, and the LPEntry it holds once that is not the case
NewHealth ==
  [lps |-> [a \in LpAddresses |-> [status |-> "none", fail_count |-> 0]],
   tasks |-> [a \in LpAddresses |->
                [pc |-> "idle", live |-> FALSE, lp |-> [status |-> "none", fail_count |-> 0]]]]

\* the LPEntry the coroutine started for address a works on
CheckedEntry(hl, a) == IF hl.tasks[a].live THEN hl.lps[a] ELSE hl.tasks[a].lp

\* check_lp_health with a 200 branch that sets the status to online and keeps
\* fail_count
check_lp_health_keeps_fail_count(lp, resp) ==
  LET checked == IF resp = "200" THEN [lp EXCEPT !.status = "online"]
                 ELSE [lp EXCEPT !.fail_count = @ + 1]
  IN IF checked.fail_count >= OFFLINE_THRESHOLD /\ checked.status # "offline"
       THEN [checked EXCEPT !.status = "offline"]
       ELSE checked

\* check_lp_health from the answer of GET /api/status on: resp is "200",
\* another status code, or "exception"; the await of GET /api/lp/info, which
\* follows after "200", changes neither field
check_lp_health(lp, resp) ==
  LET checked == IF resp = "200" THEN [lp EXCEPT !.fail_count = 0, !.status = "online"]
                 ELSE [lp EXCEPT !.fail_count = @ + 1]
  IN IF checked.fail_count >= OFFLINE_THRESHOLD /\ checked.status # "offline"
       THEN [checked EXCEPT !.status = "offline"]
       ELSE checked

\* health_checker_loop up to "await asyncio.gather(*tasks)": a coroutine for
\* every entry of registry.lps except the offline ones of `backoff`, whose last
\* check is less than BACKOFF_INTERVAL_S ago; each runs to its first await
HealthCheckerLoop(backoff) ==
  /\ \A a \in LpAddresses : health.tasks[a].pc = "idle"
  /\ \A a \in backoff : health.lps[a].status = "offline"
  /\ \E a \in LpAddresses \ backoff : health.lps[a].status # "none"
  /\ health' = [health EXCEPT
       !.tasks = [a \in LpAddresses |->
                    IF health.lps[a].status # "none" /\ a \notin backoff
                      THEN [NewHealth.tasks[a] EXCEPT !.pc = "status", !.live = TRUE]
                      ELSE NewHealth.tasks[a]]]
  /\ UNCHANGED <<envVars, withdrawn, htlcs, watcherVars, disk, swap_state, dex, lib_call, chain,
                 registry, histVars, otherVars>>

\* check_lp_health(client, lp) for the entry of address a resumes with the
\* answer of GET /api/status and runs to its next await, or to its end
StatusResponse(a, resp) ==
  LET lp == check_lp_health(CheckedEntry(health, a), resp)
  IN /\ health.tasks[a].pc = "status"
     /\ resp # "200" => CheckedEntry(health, a).fail_count < MaxFailCount
     /\ health' = [health EXCEPT
          !.tasks[a].pc = IF resp = "200" THEN "info" ELSE "idle",
          !.tasks[a].lp = IF health.tasks[a].live THEN @ ELSE lp,
          !.lps[a] = IF health.tasks[a].live THEN lp ELSE @]
     /\ UNCHANGED <<envVars, withdrawn, htlcs, watcherVars, disk, swap_state, dex, lib_call, chain,
                    registry, histVars, otherVars>>

\* check_lp_health resumes with the answer of GET /api/lp/info, or with its
\* exception, and runs "if lp.fail_count >= OFFLINE_THRESHOLD ..." to its end
InfoResponse(a) ==
  /\ health.tasks[a].pc = "info"
  /\ health' = [health EXCEPT !.tasks[a].pc = "idle"]
  /\ UNCHANGED <<envVars, withdrawn, htlcs, watcherVars, disk, swap_state, dex, lib_call, chain,
                 registry, histVars, otherVars>>

\* the block scanner runs between two awaits of the health checker:
\* Registry.register puts a new LPEntry under address a (present), or
\* Registry.unregister, the eviction of a stale endpoint or the reorg path
\* deletes the entry of a; a coroutine that holds the old LPEntry keeps it
ScannerModifies(a, present) ==
  /\ present \/ health.lps[a].status # "none"
  /\ health' = [health EXCEPT
       !.lps[a] = IF present THEN [status |-> "new", fail_count |-> 0] ELSE NewHealth.lps[a],
       !.tasks[a] = IF @.live THEN [@ EXCEPT !.live = FALSE, !.lp = health.lps[a]] ELSE @]
  /\ UNCHANGED <<envVars, withdrawn, htlcs, watcherVars, disk, swap_state, dex, lib_call, chain,
                 registry, histVars, otherVars>>

(***************************************************************************)
(* Log records that mention a preimage.  A text is a sequence of           *)
(* characters.                                                             *)
(***************************************************************************)
\* mask_secret(secret) with the default visible_prefix = 8, visible_suffix = 4
mask_secret(secret) ==
  IF Len(secret) = 0 \/ Len(secret) <= 8 + 4 THEN <<"*", "*", "*">>
  ELSE SubSeq(secret, 1, 8) \o <<".", ".", ".">> \o SubSeq(secret, Len(secret) - 3, Len(secret))

\* a component of the LP logs a revealed preimage: 64 hex characters as the
\* chain reports them, and shorter texts
LogPreimageCall ==
  \E site \in {"api_claim_kpiv_htlc", "check_for_reveals", "process_revealed_preimage"},
     len \in {0, 12, 13, 64}, k \in {1, 3, 5, 7} :
    LET digits == <<"0", "1", "2", "3", "4", "5", "6", "7",
                    "8", "9", "a", "b", "c", "d", "e", "f">>
        preimage == [i \in 1..len |-> digits[((i * k) % 16) + 1]]
    IN /\ lib_call' = [fn |-> "log", site |-> site, preimage |-> preimage,
                       out |->
                         CASE \* log.info(f"... preimage={mask_secret(preimage)}")
                              site = "api_claim_kpiv_htlc" -> mask_secret(preimage)
                              \* log.info(f"Preimage revealed on BATHRON: {preimage[:16]}...")
                           [] site = "check_for_reveals" ->
                                SubSeq(preimage, 1, Min(16, Len(preimage))) \o <<".", ".", ".">>
                              \* log.info(f"Preimage: {preimage}")
                           [] OTHER -> preimage]
       /\ UNCHANGED <<envVars, withdrawn, htlcs, watcherVars, disk, swap_state, health, dex, chain, registry, histVars,
                      otherVars>>

(***************************************************************************)
(* sdk/lot_sizes.py                                                        *)
(***************************************************************************)
STANDARD_SIZES == <<10000, 1000, 100, 10, 1>>

RECURSIVE SplitLoop(_, _, _, _)
\* "for size in sizes: while remaining >= size: lots.append(size); remaining -= size",
\* from the k-th size on; the result is the pair <<lots, remaining>>
SplitLoop(sizes, k, remaining, lots) ==
  IF k > Len(sizes) THEN <<lots, remaining>>
  ELSE IF remaining >= sizes[k]
    THEN SplitLoop(sizes, k, remaining - sizes[k], Append(lots, sizes[k]))
    ELSE SplitLoop(sizes, k + 1, remaining, lots)

\* a split that takes the sizes smallest first
SplitSmallestFirst(amount) ==
  IF amount <= 0 THEN [raised |-> TRUE, lots |-> <<>>]
  ELSE [raised |-> FALSE,
        lots |-> SplitLoop(<<1, 10, 100, 1000, 10000>>, 1, amount, <<>>)[1]]

\* split_amount: ValueError for a non-positive amount or a remainder, else the lots
split_amount(amount) ==
  IF amount <= 0 THEN [raised |-> TRUE, lots |-> <<>>]
  ELSE LET r == SplitLoop(STANDARD_SIZES, 1, amount, <<>>)
       IN IF r[2] # 0 THEN [raised |-> TRUE, lots |-> <<>>]
          ELSE [raised |-> FALSE, lots |-> r[1]]

SplitAmountCall ==
  \E amount \in (0 - 1)..MaxAmount \cup {1000, 1234, 10000, 11111, 20000} :
    /\ lib_call' = [fn |-> "split_amount", amount |-> amount, out |-> split_amount(amount)]
    /\ UNCHANGED <<envVars, withdrawn, htlcs, watcherVars, disk, swap_state, health, dex, chain, registry, histVars,
                   otherVars>>

(***************************************************************************)
(* retail_buy.py                                                           *)
(***************************************************************************)
TakerHashlock == SHA256(TakerSecret)
TAKER_ADDR == "yTaker"
\* kpiv_amount = args.amount / args.price, in millionths
ExpectedKpiv == LOCK_UNITS * LP_PRICE_INV
\* check_htlc_created: the first HTLC of the list with status "active"; 0 for None
check_htlc_created(ht, h) ==
  LET active == SelectSeq(HtlcsFor(ht, h), LAMBDA j : ht[j].status = "active")
  IN IF Len(active) = 0 THEN 0 ELSE active[1]

\* steps 1 and 2: generate the secret, register with the swap watcher
TkRegister ==
  /\ tk_pc = "start"
  /\ tk_pc' = "lock"
  /\ \/ taker_registry' = RegisterTakerStore(taker_registry,
            [id |-> TakerHashlock, pfx |-> FALSE, up |-> FALSE], TAKER_ADDR)
     \/ UNCHANGED taker_registry     \* "WARNING: Registration failed"
  /\ UNCHANGED <<now, evm_block, evm_logs, withdrawn, htlcs, watcherVars, disk, swap_state, health, dex, chain, registry, lib_call, histVars,
                 serverVars, tk_i, tk_htlc, tk_claims, tk_refunds>>

\* step 3: lock_usdc_polygon
TkLock ==
  /\ tk_pc = "lock"
  /\ \/ /\ Len(evm_logs) < MaxLocks
        /\ evm_block' = evm_block + 1
        /\ evm_logs' = Append(evm_logs,
              [block |-> evm_block + 1, swap_id |-> Len(evm_logs) + 1,
               recipient |-> LP_ADDR, token |-> USDC, amount |-> LOCK_UNITS,
               hashlock |-> TakerHashlock, timelock |-> now + POLYGON_TIMELOCK_SECONDS])
        /\ tk_pc' = "wait"
     \/ /\ tk_pc' = "exit1"          \* the lock raised
        /\ UNCHANGED <<evm_block, evm_logs>>
  /\ UNCHANGED <<now, taker_registry, withdrawn, htlcs, watcherVars, disk, swap_state, health, dex, chain, registry, lib_call, histVars,
                 serverVars, tk_i, tk_htlc, tk_claims, tk_refunds>>

\* step 4: one round of "for i in range(60)"
TkPoll ==
  /\ tk_pc = "wait"
  /\ \E rpc_ok \in BOOLEAN :
       LET found == IF rpc_ok THEN check_htlc_created(htlcs, TakerHashlock) ELSE 0
       IN \* main applies no test to the HTLC found before it claims
          IF found # 0
            THEN /\ tk_htlc' = found
                 /\ tk_pc' = "claim"
                 /\ UNCHANGED tk_i
            ELSE /\ tk_i' = tk_i + 1
                 /\ tk_pc' = IF tk_i + 1 = POLL_ATTEMPTS THEN "timeout" ELSE "wait"
                 /\ UNCHANGED tk_htlc
  /\ UNCHANGED <<envVars, withdrawn, htlcs, watcherVars, disk, swap_state, health, dex, chain, registry, lib_call, histVars, serverVars, tk_claims,
                 tk_refunds>>

\* step 5: claim_kpiv(htlc['outpoint'], secret_hex)
TkClaim ==
  /\ tk_pc = "claim"
  /\ tk_claims' = tk_claims \cup {tk_htlc}
  /\ \E rpc_ok \in BOOLEAN :
       IF rpc_ok /\ htlcs[tk_htlc].status = "active" /\ htlcs[tk_htlc].claim_addr = TAKER_ADDR
         THEN /\ htlcs' = [htlcs EXCEPT ![tk_htlc].status = "claimed",
                                        ![tk_htlc].preimage = TakerSecret]
              /\ tk_pc' = "done"
         ELSE /\ UNCHANGED htlcs
              /\ tk_pc' = "claim_failed"
  /\ UNCHANGED <<envVars, withdrawn, watcherVars, disk, swap_state, health, dex, chain, registry, lib_call, histVars, serverVars, tk_i, tk_htlc,
                 tk_refunds>>

\* some LP creates an HTLC for the taker's hashlock on the native chain
LpCreatesHtlc(addr, amount) ==
  /\ tk_pc # "start"
  /\ Len(htlcs) < MaxNativeHtlcs
  /\ htlcs' = Append(htlcs, NewHtlc(TakerHashlock, amount, addr, now))
  /\ UNCHANGED <<envVars, withdrawn, watcherVars, disk, swap_state, health, dex, chain, registry, lib_call, histVars, otherVars>>

(***************************************************************************)
(* Specifications                                                          *)
(***************************************************************************)
EnvInit ==
  /\ now = 0
  /\ evm_block = START_BLOCKS_BACK
  /\ evm_logs = <<>>
  /\ withdrawn = {}
  /\ taker_registry = [s \in Spellings |-> ""]
  /\ htlcs = <<>>

WatcherInit ==
  /\ last_block = evm_block - START_BLOCKS_BACK
  /\ pending_swaps = InitialPendingSwaps
  /\ pc = "scan"
  /\ lock_queue = <<>>
  /\ observed = {}
  /\ create_calls = {}
  /\ quote_claims = {}
  /\ refund_hist = [h \in HashIds |->
                     [ok |-> 0, after_ok |-> FALSE, after_claim |-> FALSE, skipped |-> FALSE]]
  /\ lookup_misses = [h \in HashIds |-> 0]
  /\ before_restart = [n |-> 0, swaps |-> <<>>]

ServerInit ==
  /\ srv_phase = "import"
  /\ srv_pending = [s \in Spellings |-> NoSwapInfo]
  /\ http_status = 0
  /\ known_htlcs = InitialKnownHtlcs

TakerInit ==
  /\ DiskInit
  /\ swap_state = NewSwapState
  /\ lib_call = [fn |-> "none"]
  /\ chain = <<>>
  /\ registry = NewRegistry
  /\ dex = NewDexDaemon
  /\ health = NewHealth
  /\ tk_pc = "start"
  /\ tk_i = 0
  /\ tk_htlc = 0
  /\ tk_claims = {}
  /\ tk_refunds = {}

ShippedCfg ==
  [T_KPIV_SECONDS |-> T_KPIV_SECONDS_DEFAULT, T_USDC_SECONDS |-> T_USDC_SECONDS_DEFAULT,
   T_BUFFER_SECONDS |-> T_BUFFER_SECONDS, T_KPIV_BLOCKS |-> DEFAULT_EXPIRY_BLOCKS]

\* the LP watcher with both chains and the swap watcher's registry
Init ==
  /\ EnvInit
  /\ WatcherInit
  /\ private_key \in BOOLEAN
  /\ ServerInit
  /\ srv_cfg = ShippedCfg
  /\ TakerInit

Next ==
  \/ \E s \in Spellings : RegisterTaker(s, TAKER_ADDR)
  \/ \E c \in LockCases, h \in HashIds : TakerLock(c, h)
  \/ Advance
  \/ \E j \in 1..Len(htlcs), p \in Preimages : NativeClaim(j, p)
  \/ \E j \in 1..Len(htlcs) : NativeConfirm(j)
  \/ \E j \in 1..Len(htlcs) : NativeReorg(j)
  \/ \E j \in 1..Len(htlcs) : NativeExpire(j)
  \/ \E j \in 1..Len(htlcs) : RefundMined(j)
  \/ Scan
  \/ ProcessNewLock
  \/ CheckPendingHtlcs
  \/ CheckForReveals
  \/ CheckForExpiredHtlcs

Spec == Init /\ [][Next]_vars

\* the "while self.running" loop keeps taking its steps, and RPCs that fail do
\* not fail forever
LoopFairness ==
  /\ WF_vars(Scan)
  /\ WF_vars(ProcessNewLock)
  /\ WF_vars(CheckPendingHtlcs)
  /\ WF_vars(CheckForReveals)
  /\ WF_vars(CheckForExpiredHtlcs)
  /\ SF_vars(RevealSweepSent)
  /\ SF_vars(ExpiredSweepOk)

SpecFair == Init /\ [][Next]_vars /\ LoopFairness

\* the LP watcher, its taker registered, with RPC answers that can be lost and
\* so with several native HTLCs for one hashlock
InitLossy ==
  /\ now = 0
  /\ evm_block = START_BLOCKS_BACK
  /\ evm_logs = <<>>
  /\ withdrawn = {}
  /\ taker_registry =
       [s \in Spellings |-> IF s = Strip0x(Lower(s)) THEN TAKER_ADDR ELSE ""]
  /\ htlcs = <<>>
  /\ WatcherInit
  /\ private_key = TRUE
  /\ ServerInit
  /\ srv_cfg = ShippedCfg
  /\ TakerInit

NextLossy ==
  \/ \E h \in HashIds : TakerLock(GoodLock, h)
  \/ \E j \in 1..Len(htlcs), p \in Preimages : NativeClaim(j, p)
  \/ \E j \in 1..Len(htlcs) : NativeConfirm(j)
  \/ \E j \in 1..Len(htlcs) : NativeReorg(j)
  \/ \E j \in 1..Len(htlcs) : NativeExpire(j)
  \/ \E j \in 1..Len(htlcs) : RefundMined(j)
  \/ Scan
  \/ ProcessNewLockOver(LossyCreateOutcomes)
  \/ CheckPendingHtlcsOver(LossyCreateOutcomes)
  \/ CheckForReveals
  \/ CheckForExpiredHtlcsOver(ExpiredOutcomes \cup {"refund_lost"})

SpecLossy == InitLossy /\ [][NextLossy]_vars

\* the LP watcher waiting for a taker who registers late
NextRetry ==
  \/ \E s \in Spellings : RegisterTaker(s, TAKER_ADDR)
  \/ \E h \in HashIds : TakerLock(GoodLock, h)
  \/ Advance
  \/ \E j \in 1..Len(htlcs) : NativeExpire(j)
  \/ Scan
  \/ ProcessNewLockCounting
  \/ CheckPendingHtlcsCounting
  \/ CheckForReveals
  \/ CheckForExpiredHtlcs

SpecRetry == Init /\ [][NextRetry]_vars

\* the LP watcher receiving several Locked events that carry one hashlock
NextDup ==
  \/ \E h \in HashIds : TakerLock(GoodLock, h)
  \/ \E h \in HashIds : TakerRelock(h)
  \/ Advance
  \/ \E j \in 1..Len(htlcs), p \in Preimages : NativeClaim(j, p)
  \/ \E j \in 1..Len(htlcs) : NativeExpire(j)
  \/ Scan
  \/ ProcessNewLock
  \/ CheckPendingHtlcs
  \/ CheckForReveals
  \/ CheckForExpiredHtlcs

SpecDup == InitLossy /\ [][NextDup]_vars

\* the LP watcher, its taker registered, stopped and started again
NextRestart ==
  \/ \E h \in HashIds : TakerLock(GoodLock, h)
  \/ Advance
  \/ \E j \in 1..MaxNativeHtlcs, p \in Preimages : NativeClaim(j, p)
  \/ \E j \in 1..MaxNativeHtlcs : NativeExpire(j)
  \/ Scan
  \/ ProcessNewLock
  \/ CheckPendingHtlcs
  \/ CheckForReveals
  \/ CheckForExpiredHtlcs
  \/ Restart

SpecRestart == InitLossy /\ [][NextRestart]_vars /\ LoopFairness

\* the two registration services and the SDK server's start-up
InitServer ==
  /\ EnvInit
  /\ WatcherInit
  /\ private_key = FALSE
  /\ ServerInit
  /\ srv_cfg \in ServerCfgs
  /\ TakerInit

NextServer ==
  \/ ServerStart
  \/ \E s \in Spellings, a \in AddrInputs, lot \in {"lot1", "lot2"} : ApiRegisterSwap(s, a, lot)
  \/ \E s \in Spellings, a \in AddrInputs : PostRegisterTaker(s, a)

SpecServer == InitServer /\ [][NextServer]_vars

\* the three services saving their state, each killed at any point
NextSave ==
  \/ \E s \in Stores : SaveStep(s)
  \/ \E s \in Stores : Crash(s)

SpecSave == InitServer /\ [][NextSave]_vars

\* compute_swap_state called for a swap in any condition of the two chains
InitDerive ==
  /\ now = TimeStep
  /\ evm_block = START_BLOCKS_BACK
  /\ evm_logs = <<>>
  /\ withdrawn = {}
  /\ taker_registry = [s \in Spellings |-> ""]
  /\ htlcs = <<>>
  /\ WatcherInit
  /\ private_key = FALSE
  /\ ServerInit
  /\ srv_cfg = ShippedCfg
  /\ DiskInit
  /\ tk_pc = "start"
  /\ tk_i = 0
  /\ tk_htlc = 0
  /\ tk_claims = {}
  /\ tk_refunds = {}
  /\ lib_call = [fn |-> "none"]
  /\ chain = <<>>
  /\ registry = NewRegistry
  /\ dex = NewDexDaemon
  /\ health = NewHealth
  /\ swap_state \in
       {ComputeRaw(lot, saved, htlc, timelock, now) :
          lot \in {"", "unknown", "locked", "claimed", "expired"}, saved \in {0, TakerSecret},
          htlc \in {"", "locked", "claimed", "refunded"},
          timelock \in {now - 1, now, now + 1, now + T_BUFFER_SECONDS, now + TimeStep}}

SpecDerive == InitDerive /\ [][DeriveStates]_vars

\* the library functions called with arguments of every kind
NextCalls ==
  \/ IsRefundableCall
  \/ VerifyPreimageCall
  \/ ExtractPreimageCall
  \/ LogPreimageCall
  \/ RegistryCalls
  \/ HtlcWrapperCreateCall
  \/ ProcessRevealedPreimageCall
  \/ ScanForLocksCall
  \/ IsValidLpEndpointCall
  \/ SplitAmountCall

SpecCalls == InitLossy /\ [][NextCalls]_vars

\* the registry service's block scanner against a chain that grows and reorganises
NextRegistry ==
  \/ \E blk \in ChainBlocks : MineBlock(blk)
  \/ \E f \in 1..MaxHeight, b1 \in ChainBlocks, b2 \in ChainBlocks : Reorg(f, b1, b2)
  \/ \E scanned \in 0..MaxHeight : BlockScannerLoop(scanned)

SpecRegistry == InitLossy /\ [][NextRegistry]_vars

\* the polling iterations of the DEX daemon
SpecDex == InitLossy /\ [][ProcessPendingTakes]_vars

\* the block scanner on a chain that does not reorganise, with the RPCs of
\* get_sender_address failing at times
SpecScanner ==
  InitLossy /\ [][\/ \E blk \in ChainBlocks : MineBlock(blk)
                  \/ \E scanned \in 0..MaxHeight : BlockScannerLoop(scanned)
                  \/ BlockScannerLoopNoSender]_vars

\* the health checker of the registry service, with the block scanner
\* modifying the registry between its awaits
SpecHealth ==
  InitLossy /\ [][\/ \E backoff \in SUBSET LpAddresses : HealthCheckerLoop(backoff)
                  \/ \E a \in LpAddresses, resp \in {"200", "503", "exception"} :
                       StatusResponse(a, resp)
                  \/ \E a \in LpAddresses : InfoResponse(a)
                  \/ \E a \in LpAddresses, present \in BOOLEAN : ScannerModifies(a, present)]_vars

\* the SDK server's HTLC endpoints against the native chain
InitHtlcApi ==
  /\ EnvInit
  /\ WatcherInit
  /\ private_key = FALSE
  /\ ServerInit
  /\ srv_cfg \in {c \in ServerCfgs : c.T_KPIV_SECONDS = T_KPIV_SECONDS_DEFAULT
                                     /\ c.T_KPIV_BLOCKS = DEFAULT_EXPIRY_BLOCKS}
  /\ TakerInit

NextHtlcApi ==
  \/ ServerStart
  \/ \E s \in Spellings : ApiRegisterSwap(s, "yTaker", "lot1")
  \/ \E s \in Spellings, a \in {"yTaker", "0xEvm"}, out \in ServerRpcOutcomes :
       ApiCreateKpivHtlc(s, a, out)
  \/ \E s \in Spellings, p \in Preimages, out \in ServerRpcOutcomes :
       ApiClaimKpivHtlc(s, p, out)

SpecHtlcApi == InitHtlcApi /\ [][NextHtlcApi]_vars

\* the taker script against the native chain
InitTaker ==
  /\ EnvInit
  /\ WatcherInit
  /\ private_key = FALSE
  /\ ServerInit
  /\ srv_cfg = ShippedCfg
  /\ TakerInit

NextTaker ==
  \/ TkRegister
  \/ TkLock
  \/ TkPoll
  \/ TkClaim
  \/ \E a \in TakerAddrs, amount \in {ExpectedKpiv, LOCK_UNITS} : LpCreatesHtlc(a, amount)
  \/ \E j \in 1..Len(htlcs) : NativeExpire(j)

SpecTaker == InitTaker /\ [][NextTaker]_vars

(***************************************************************************)
(* Properties                                                              *)
(***************************************************************************)
CreatedSwaps == {i \in 1..Len(pending_swaps) : pending_swaps[i].kpiv_htlc_created}

\* C1: for every swap whose native HTLC the watcher created, the quote timelock
\* is at least the native HTLC's expected expiry wall time plus the buffer.
C1_TimelockAsymmetry ==
  \A i \in CreatedSwaps :
    pending_swaps[i].polygon_timelock >=
      htlcs[pending_swaps[i].kpiv_htlc_outpoint].created_time
        + DEFAULT_EXPIRY_BLOCKS * SECONDS_PER_BLOCK + T_BUFFER_SECONDS

\* C2: the server serves requests only if T_USDC_SECONDS covers the configured
\* native block count at 60 s per block plus the buffer.
C2_StartupPolicy ==
  srv_phase = "serving" =>
    srv_cfg.T_USDC_SECONDS >=
      srv_cfg.T_KPIV_BLOCKS * SECONDS_PER_BLOCK + srv_cfg.T_BUFFER_SECONDS

\* C3: every htlc_create_kpiv submission is for a hashlock that a scan has
\* returned a lock for.
C3_CreateAfterLock ==
  \A c \in create_calls : c.hashlock \in observed

C3_Witness ==
  \E c \in create_calls : c.hashlock \in observed /\ htlcs # <<>>

\* C4: every native HTLC the watcher created answers a lock whose token is the
\* quote token, whose recipient is the LP, whose hashlock is registered, whose
\* amount covers the native amount at the LP price and whose timelock satisfies
\* the timelock policy at the time of creation.
C4_LockVerified ==
  \A i \in CreatedSwaps :
    LET swap == pending_swaps[i]
        e == evm_logs[swap.polygon_swap_id]
        htlc == htlcs[swap.kpiv_htlc_outpoint]
    IN /\ e.token = USDC
       /\ e.recipient = LP_ADDR
       /\ TakerAddressLookup(taker_registry, swap.hashlock) # ""
       /\ e.hashlock = htlc.hashlock
       /\ e.amount * LP_PRICE_INV >= htlc.amount
       /\ e.timelock >= htlc.created_time
                          + DEFAULT_EXPIRY_BLOCKS * SECONDS_PER_BLOCK + T_BUFFER_SECONDS

\* C5: a recorded preimage_revealed is empty or hashes to the swap's hashlock,
\* and every quote claim carries a preimage that hashes to the hashlock.
C5_PreimageIntegrity ==
  /\ \A i \in 1..Len(pending_swaps) :
       \/ pending_swaps[i].preimage_revealed = 0
       \/ SHA256(pending_swaps[i].preimage_revealed) = pending_swaps[i].hashlock.id
  /\ \A c \in quote_claims : SHA256(c.preimage) = c.hashlock

\* C6: a swap is marked usdc_claimed only if its quote HTLC has been withdrawn
\* on the EVM chain.
C6_ClaimedMeansWithdrawn ==
  \A i \in 1..Len(pending_swaps) :
    pending_swaps[i].usdc_claimed => pending_swaps[i].polygon_swap_id \in withdrawn

\* C7: per swap at most one refund succeeds, no refund is submitted after one
\* succeeded, and none is submitted once the quote claim has been sent.
C7_AtMostOneResolution ==
  \A h \in HashIds :
    /\ refund_hist[h].ok <= 1
    /\ ~refund_hist[h].after_ok
    /\ ~refund_hist[h].after_claim

\* a refund succeeded and a later sweep, with the chain still reporting an
\* HTLC of the hashlock expired, submitted nothing; the chain holds two HTLCs
\* for the hashlock
C7_Witness ==
  \E i \in 1..Len(pending_swaps) :
    /\ Len(htlcs) > 1
    /\ pending_swaps[i].kpiv_refunded
    /\ refund_hist[pending_swaps[i].hashlock.id].ok = 1
    /\ refund_hist[pending_swaps[i].hashlock.id].skipped

\* C8: a registration for a hashlock that is already registered leaves the
\* stored entry unchanged, in the swap watcher and in the SDK server.
C8_DuplicateRejected ==
  [][/\ \A s \in Spellings :
          taker_registry[s] # "" => taker_registry'[s] = taker_registry[s]
     /\ \A s \in Spellings :
          srv_pending[s].taker_kpiv_addr # "" => srv_pending'[s] = srv_pending[s]]_vars

\* C9: every quote claim was sent when the native claim had N_REORG confirmations.
C9_ClaimAfterConfirmations ==
  \A c \in quote_claims : c.confs >= N_REORG

\* C10: the taker gives htlc_claim_kpiv only an HTLC that carries its hashlock,
\* pays to its own address and locks at least the expected amount.
C10_TakerClaimsOnlyMatching ==
  \A j \in tk_claims :
    /\ htlcs[j].hashlock = TakerHashlock
    /\ htlcs[j].claim_addr = TAKER_ADDR
    /\ htlcs[j].amount >= ExpectedKpiv

\* C11: when the taker script has ended on the timeout branch - the quote asset
\* locked, no native HTLC seen - it has submitted a quote refund for its lock.
\* The script's process ends there, so a refund it has not submitted by then is
\* never submitted.
C11_TakerRefundsAfterTimeout ==
  tk_pc = "timeout" => tk_refunds # {}

\* C12: under a fair loop and RPCs that eventually succeed, a native HTLC the
\* watcher created that is reported expired is eventually refunded.
C12_ExpiredEventuallyRefunded ==
  \A i \in 1..MaxLocks :
    (\* the chain reports swap i's native HTLC expired
     /\ i <= Len(pending_swaps)
     /\ pending_swaps[i].kpiv_htlc_created
     /\ htlcs[pending_swaps[i].kpiv_htlc_outpoint].status = "expired")
    ~> (\* the daemon has accepted a refund of swap i's native HTLC
       /\ i <= Len(pending_swaps)
       /\ pending_swaps[i].kpiv_htlc_created
       /\ htlcs[pending_swaps[i].kpiv_htlc_outpoint].refund_sent)

\* C13: under a fair loop and with a claim key, a tracked swap whose native HTLC
\* the chain reports claimed with a preimage eventually has a quote claim
\* submitted for its EVM swap id with that preimage.
C13_RevealEventuallyClaimed ==
  \A i \in 1..MaxLocks : \A p \in Preimages :
    (\* a claim key is configured and the chain reports swap i's native HTLC
     \* claimed with preimage p, the claim transaction past reorganisation
     /\ private_key
     /\ i <= Len(pending_swaps)
     /\ pending_swaps[i].kpiv_htlc_created
     /\ htlcs[pending_swaps[i].kpiv_htlc_outpoint].status = "claimed"
     /\ htlcs[pending_swaps[i].kpiv_htlc_outpoint].preimage = p
     /\ htlcs[pending_swaps[i].kpiv_htlc_outpoint].confs >= N_REORG)
    ~> (\* a quote claim for swap i's EVM swap id with preimage p was broadcast
       /\ i <= Len(pending_swaps)
       /\ \E c \in quote_claims :
            c.swap_id = pending_swaps[i].polygon_swap_id /\ c.preimage = p)

\* C14: the watcher gives up a swap after RetryBound registry lookups that
\* returned no address: no htlc_create_kpiv is submitted for it after that.
C14_BoundedRegistryRetries ==
  \A i \in CreatedSwaps : lookup_misses[pending_swaps[i].hashlock.id] < RetryBound

\* C15: a process_new_lock step for a lock whose hashlock is already tracked
\* leaves pending_swaps as it was and creates no native HTLC.
C15_DuplicateDeliveryNoOp ==
  [][(/\ pc = "locks"
      /\ lock_queue # <<>>
      /\ lock_queue' = Tail(lock_queue)
      /\ \E i \in 1..Len(pending_swaps) :
           pending_swaps[i].hashlock = Head(lock_queue).hashlock)
     => (/\ pending_swaps' = pending_swaps
         /\ htlcs' = htlcs
         /\ create_calls' = create_calls)]_vars

\* two Locked events with one hashlock have both been delivered and processed:
\* one swap is tracked and one native HTLC exists
C15_Witness ==
  /\ Len(evm_logs) > 1
  /\ evm_logs[1].hashlock = evm_logs[2].hashlock
  /\ last_block >= evm_logs[2].block
  /\ lock_queue = <<>>
  /\ Len(pending_swaps) = 1
  /\ pending_swaps[1].kpiv_htlc_created
  /\ Len(htlcs) = 1

\* C16: the status known_htlcs stores for a hashlock only moves forward: an
\* entry marked claimed is not locked again by any later create_kpiv or
\* claim_kpiv request.
C16_KnownStatusMonotonic ==
  [][\A k \in KnownIds :
       known_htlcs[k].status = "claimed" => known_htlcs'[k].status = "claimed"]_vars

\* C17: each hashlock present in known_htlcs is referenced by exactly one
\* swap record of pending_swaps, at start-up and after any request.
C17_KnownHtlcHasOneSwap ==
  \A k \in KnownIds :
    known_htlcs[k].status # "none" => Cardinality({s \in Spellings : s.id = k /\ srv_pending[s] # NoSwapInfo}) = 1

\* C18: after a restart of the LP watcher every swap that was in flight is
\* tracked again with its previous native HTLC outpoint and creation flag.
C18_RestartRestoresSwaps ==
  \A i \in 1..MaxLocks :
    (\* swap i of the pending_swaps the last restart found was in flight: its
     \* native HTLC exists and it is neither claimed nor refunded
     /\ before_restart.n > 0
     /\ i \in 1..Len(before_restart.swaps)
     /\ before_restart.swaps[i].kpiv_htlc_created
     /\ ~before_restart.swaps[i].usdc_claimed
     /\ ~before_restart.swaps[i].kpiv_refunded)
    ~> (\* the restarted watcher tracks it with the outpoint and flag it had
       /\ i \in 1..Len(before_restart.swaps)
       /\ \E j \in 1..Len(pending_swaps) :
            /\ pending_swaps[j].hashlock = before_restart.swaps[i].hashlock
            /\ pending_swaps[j].kpiv_htlc_outpoint = before_restart.swaps[i].kpiv_htlc_outpoint
            /\ pending_swaps[j].kpiv_htlc_created = before_restart.swaps[i].kpiv_htlc_created)

\* C19: a crash at any point of a save leaves the target file holding the
\* complete previous content or the complete new content.
C19_CrashLeavesWholeFile ==
  \A s \in Stores :
    disk[s].at = "crashed" =>
      /\ disk[s].target.whole
      /\ disk[s].target.v \in {disk[s].mem - 1, disk[s].mem}

\* C20: derive_states, when a preimage is known and the quote HTLC is locked
\* and not claimed, gives LP state CLAIMING and taker state COMPLETED.
C20_SecretKnownGivesClaiming ==
  (/\ swap_state.derived
   /\ swap_state.secret # 0
   /\ swap_state.evm_locked
   /\ ~swap_state.evm_claimed)
  => (swap_state.lp_state = "claiming" /\ swap_state.taker_state = "completed")

\* C21: derive_states, when the native HTLC exists and is locked and the quote
\* HTLC is locked (and its timelock not yet reached), gives taker state
\* CLAIMABLE and LP state TAKEN.
C21_BothLockedGivesClaimable ==
  (/\ swap_state.derived
   /\ swap_state.seen.lot = "locked"
   /\ swap_state.seen.htlc = "locked"
   /\ now < swap_state.evm_timelock)
  => (swap_state.taker_state = "claimable" /\ swap_state.lp_state = "taken")

\* C22: with the quote HTLC locked, no native HTLC and no preimage revealed,
\* the taker state is REFUNDABLE exactly when now > quote_timelock: LOCKED at
\* now = quote_timelock, REFUNDABLE at now = quote_timelock + 1.
C22_RefundableStrictlyAfterTimelock ==
  (/\ swap_state.derived
   /\ swap_state.seen.htlc = "locked"
   /\ swap_state.seen.lot = ""
   /\ ~swap_state.secret_revealed)
  => /\ swap_state.taker_state = "refundable" <=> now > swap_state.evm_timelock
     /\ now <= swap_state.evm_timelock => swap_state.taker_state = "locked"

\* C24: once the quote HTLC has been refunded on the EVM chain,
\* compute_swap_state reports taker state REFUNDED.
C24_RefundedQuoteReported ==
  (swap_state.derived /\ swap_state.seen.htlc = "refunded")
  => swap_state.taker_state = "refunded"

\* C23: for an HTLC neither claimed nor refunded, is_refundable is false at
\* block height expiry_height and true at expiry_height + 1.
C23_RefundableAfterExpiryHeight ==
  (/\ lib_call.fn = "is_refundable"
   /\ lib_call.status \notin {"", "claimed", "refunded"})
  => /\ lib_call.current_height = lib_call.expiry_height => ~lib_call.out
     /\ lib_call.current_height = lib_call.expiry_height + 1 => lib_call.out

\* C26: verify_preimage returns false for an empty preimage whatever the
\* hashlock, and false for every 32-byte preimage whose SHA-256 differs from
\* the hashlock.
C26_VerifyPreimageRejects ==
  lib_call.fn = "verify_preimage" =>
    /\ (lib_call.preimage.hex /\ lib_call.preimage.bytes.len = 0) => ~lib_call.out
    /\ (/\ lib_call.preimage.hex
        /\ lib_call.preimage.bytes.len = 32
        /\ lib_call.preimage.bytes # lib_call.hashlock.of) => ~lib_call.out

\* C25: extract_preimage_from_scriptsig applied to the claim witness
\* <sig> <S> 0x01 <redeemscript> returns exactly S, for every 32-byte S.
C25_ExtractReturnsPreimage ==
  lib_call.fn = "extract_preimage_from_scriptsig" => lib_call.out = lib_call.S

\* C27: every log record that mentions a preimage contains only its masked
\* form, the first 8 and last 4 characters around "..." or "***"; no component
\* of the LP writes a full preimage to its log.
C27_LogsOnlyMaskedPreimage ==
  lib_call.fn = "log" =>
    /\ lib_call.out = mask_secret(lib_call.preimage)
    /\ Len(lib_call.preimage) = 64 => lib_call.out # lib_call.preimage

\* C28: an endpoint whose host resolves to a loopback, link-local or RFC 1918
\* address, given as a literal IP or as a DNS name, is rejected by
\* is_valid_lp_endpoint (the code has no development-mode flag to allow it).
C28_PrivateEndpointRejected ==
  (/\ lib_call.fn = "is_valid_lp_endpoint"
   /\ lib_call.url.host.kind \in {"ip", "dns"}
   /\ InPrivateNetworks(lib_call.url.host.addr)) => ~lib_call.out

\* C29: once the block scanner has detected a reorganisation and has rescanned
\* up to the tip, the LP registry equals the registry a fresh scan of the
\* canonical chain builds.
C29_RescanEqualsFreshScan ==
  (/\ registry.reorg_seen
   /\ registry.last_scanned_height = Len(chain)
   /\ registry.last_scanned_hash = GetBlockHash(chain, Len(chain)))
  => registry.lps = ScanBlocks(NewRegistry.lps, chain, START_SCAN_HEIGHT, Len(chain))

\* C30: for a positive amount split_amount returns standard sizes in
\* non-increasing order whose sum is the amount, and no list of standard sizes
\* with fewer elements sums to the amount; for a non-positive amount it raises.
C30_SplitAmountGreedyMinimal ==
  lib_call.fn = "split_amount" =>
    LET amount == lib_call.amount
        lots == lib_call.out.lots
        Sizes == {STANDARD_SIZES[k] : k \in 1..Len(STANDARD_SIZES)}
        Count(s) == Cardinality({i \in 1..Len(lots) : lots[i] = s})
    IN IF amount <= 0 THEN lib_call.out.raised
       ELSE /\ ~lib_call.out.raised
            /\ \A i \in 1..Len(lots) : lots[i] \in Sizes
            /\ \A i \in 1..(Len(lots) - 1) : lots[i] >= lots[i + 1]
            /\ Count(1) + 10 * Count(10) + 100 * Count(100) + 1000 * Count(1000)
                 + 10000 * Count(10000) = amount
            /\ \A c1 \in 0..Min(Len(lots), amount), c2 \in 0..Min(Len(lots), amount \div 10),
                  c3 \in 0..Min(Len(lots), amount \div 100),
                  c4 \in 0..Min(Len(lots), amount \div 1000),
                  c5 \in 0..Min(Len(lots), amount \div 10000) :
                 c1 + 10 * c2 + 100 * c3 + 1000 * c4 + 10000 * c5 = amount
                   => c1 + c2 + c3 + c4 + c5 >= Len(lots)

\* split_amount(1234) returned its ten lots
C30_Witness ==
  /\ lib_call.fn = "split_amount"
  /\ lib_call.amount = 1234
  /\ lib_call.out.lots = <<1000, 100, 100, 10, 10, 10, 1, 1, 1, 1>>

\* C31: for each hashlock the LP watcher causes at most one native HTLC to be
\* created, also over ticks in which the create RPC timed out or reported an
\* error after the daemon had broadcast the funding transaction.
C31_OneNativeHtlcPerHashlock ==
  \A h \in HashIds : Len(HtlcsFor(htlcs, h)) <= 1

\* C32: scan_for_locks reports a lock only for log entries whose first topic is
\* the Locked event signature; an entry of another event type yields no lock,
\* whatever its other topics and data.
C32_OnlyLockedEventsReported ==
  lib_call.fn = "scan_for_locks" =>
    \A i \in 1..Len(lib_call.out) :
      \E k \in 1..Len(lib_call.logs) :
        /\ lib_call.logs[k].topic0 = LOCKED_TOPIC
        /\ lib_call.logs[k].swap_id = lib_call.out[i].swap_id

\* C33: each of claim_signing_addr, refund_dest and refund_signing_addr given
\* to HTLCWrapper.create non-empty reaches the htlc_create_kpiv RPC in its own
\* parameter position (5th, 6th, 7th), whether or not the other optional
\* arguments are supplied.
C33_CreateArgumentsReachRpc ==
  lib_call.fn = "create" =>
    /\ lib_call.claim_signing_addr # "" =>
         Len(lib_call.out) >= 5 /\ lib_call.out[5] = lib_call.claim_signing_addr
    /\ lib_call.refund_dest # "" =>
         Len(lib_call.out) >= 6 /\ lib_call.out[6] = lib_call.refund_dest
    /\ lib_call.refund_signing_addr # "" =>
         Len(lib_call.out) >= 7 /\ lib_call.out[7] = lib_call.refund_signing_addr

\* C34: after any sequence of Registry.register and Registry.unregister calls
\* no two entries of the LP registry have the same endpoint, also when two
\* addresses register one endpoint at the same block height.
C34_OneEntryPerEndpoint ==
  lib_call.fn = "registry" =>
    \A a, b \in LpAddresses :
      (a # b /\ lib_call.out[a] # NoLp /\ lib_call.out[b] # NoLp)
        => lib_call.out[a].endpoint # lib_call.out[b].endpoint

\* C35: once the DEX daemon has released the LOT of a pending take, every later
\* polling iteration skips that take: no payment verification, attestation or
\* release is made for it again.
C35_ReleasedTakeSkipped ==
  \A t \in 1..MaxTakes : ~dex.hist[t].again

\* C36: every LPEntry, in registry.lps or held by a running check, is offline
\* exactly when its fail_count has reached OFFLINE_THRESHOLD, and the step in
\* which a check receives status 200 leaves the LPEntry it checks with
\* fail_count 0 and status online
C36_OfflineExactlyAtThreshold ==
  /\ [](\A a \in LpAddresses :
          \A lp \in {health.lps[a], health.tasks[a].lp} :
            lp.status = "offline" <=> lp.fail_count >= OFFLINE_THRESHOLD)
  /\ [][\A a \in LpAddresses :
          health.tasks[a].pc = "status" /\ health'.tasks[a].pc = "info"
            => CheckedEntry(health, a)'.fail_count = 0
               /\ CheckedEntry(health, a)'.status = "online"]_vars

\* the check of one address has received status 200 and its LPEntry is online,
\* while the other check still waits for its answer, holding an LPEntry that
\* went offline at its third failure and that the block scanner has since
\* replaced in registry.lps
C36_Witness ==
  \E a, b \in LpAddresses :
    /\ health.tasks[a].pc = "info" /\ health.tasks[a].live
    /\ health.lps[a].status = "online"
    /\ health.tasks[b].pc = "status" /\ ~health.tasks[b].live
    /\ health.tasks[b].lp = [status |-> "offline", fail_count |-> OFFLINE_THRESHOLD]
    /\ health.lps[b].status = "new"

\* C37: over the scan_for_locks calls of one EVMMonitor, last_block never
\* decreases; it changes only in a scan whose log query succeeded, to the
\* current block, and that scan returns the locks of the blocks
\* last_block + 1 .. current block, the range that starts where the last
\* successful query ended; every lock in a block up to last_block has been
\* returned
C37_ScanRangesContiguous ==
  /\ [][/\ last_block' >= last_block
        /\ last_block' # last_block
             => /\ pc = "scan" /\ last_block < evm_block
                /\ last_block' = evm_block
                /\ lock_queue' = ScanLocks(evm_logs, last_block + 1, last_block')]_vars
  /\ [](LET covered == ScanLocks(evm_logs, 1, last_block)
        IN \A i \in 1..Len(covered) : covered[i].hashlock.id \in observed)

\* a query has succeeded for the blocks after the start block and returned
\* the lock they hold
C37_Witness ==
  /\ pc = "locks" /\ lock_queue # <<>>
  /\ last_block = evm_block /\ last_block > START_BLOCKS_BACK

\* C38: the registry holds what the PNA transactions of the blocks up to
\* last_scanned_height make of an empty registry: no registration or
\* unregistration in a scanned block has been passed over
C38_ScannedRegistrationsApplied ==
  registry.lps =
    ScanBlocks(NewRegistry.lps, chain, START_SCAN_HEIGHT, registry.last_scanned_height)

\* C39: whatever spelling a hashlock was registered under, the taker-address
\* lookup returns the registered address for every spelling of that hashlock,
\* in the swap watcher (taker_registry) and in the SDK server (pending_swaps)
C39_LookupFindsEverySpelling ==
  \A s \in Spellings, s2 \in Spellings :
    s.id = s2.id =>
      /\ taker_registry[s] # "" => TakerAddressLookup(taker_registry, s2) = taker_registry[s]
      /\ srv_pending[s].taker_kpiv_addr # ""
           => ApiTakerAddress(srv_pending, s2) = srv_pending[s].taker_kpiv_addr

\* C40: process_revealed_preimage adds the hashlock to claimed_swaps only when
\* a claimer is configured and its claim returned a transaction hash or
\* "already_claimed"
C40_ClaimedOnlyAfterClaim ==
  (/\ lib_call.fn = "process_revealed_preimage"
   /\ \E i \in 1..Len(lib_call.out) : lib_call.out[i] = lib_call.hashlock)
  => lib_call.claimer /\ lib_call.result \in {"already_claimed", "0xclaimtx"}

====
